---- MODULE Spec2Model ----
(***************************************************************************)
(* A model of claude-code-to-sqlite: the content extractors, the record    *)
(* parser, the two session normalizers, the persistence adapter and the    *)
(* command surface (src/claude_code_to_sqlite/utils.py and cli.py).        *)
(***************************************************************************)
EXTENDS Integers, Sequences, FiniteSets, TLC

(***************************************************************************)
(* JSON values.  A scalar that the code reads as text is a record          *)
(*   k    "str" | "null" (None) | "absent" (key missing) | "num" (the      *)
(*        number 7, a truthy non-string) | "list" | "dict"                 *)
(*   id   the characters of a string (a name for a long one)               *)
(*   len  len(s)                                                           *)
(*   b64  0-based offset of the first "base64" in s, -1 when there is none *)
(*   items the elements of a list (for "dict": the mapping, as items[1])   *)
(* Identifiers and tags (type, sessionId, ...) are plain strings, with     *)
(* NULL, ABSENT and NUM standing for None, a missing key and a number.     *)
(***************************************************************************)
NULL == "<null>"
ABSENT == "<absent>"
NUM == "<7>"

StrV(id, len, b64) == [k |-> "str", id |-> id, len |-> len, b64 |-> b64, items |-> <<>>]
Lit(s) == StrV(s, Len(s), -1)
NullV == [k |-> "null", id |-> "", len |-> 0, b64 |-> -1, items |-> <<>>]
AbsentV == [k |-> "absent", id |-> "", len |-> 0, b64 |-> -1, items |-> <<>>]
NumV == [k |-> "num", id |-> "", len |-> 0, b64 |-> -1, items |-> <<>>]
ListV(items) == [k |-> "list", id |-> "", len |-> 0, b64 |-> -1, items |-> items]
DictV(d) == [k |-> "dict", id |-> "", len |-> 0, b64 |-> -1, items |-> <<d>>]
EmptyV == Lit("")

\* dict.get(key, default) on a text value and on a tag
GetV(v, default) == IF v.k = "absent" THEN default ELSE v
Get(t, default) == IF t = ABSENT THEN default ELSE t
\* Python truthiness of a text value and of a tag
TruthyV(v) == v.k \in {"num", "dict"} \/ (v.k = "str" /\ v.len > 0) \/ (v.k = "list" /\ v.items # <<>>)
Truthy(t) == t \notin {NULL, ABSENT, ""}
IsStr(t) == t \notin {NULL, ABSENT, NUM}

\* str(x) / f"{x}" of a tag and of a scalar
FmtTag(t) == IF t = NULL THEN "None" ELSE IF t = NUM THEN "7" ELSE t
FmtV(v) == CASE v.k = "str" -> v
             [] v.k = "null" -> Lit("None")
             [] v.k = "num" -> Lit("7")
             [] v.k = "list" -> Lit("[...]")
             [] OTHER -> Lit("{...}")

\* a + b on two strings
Cat(a, b) == StrV(a.id \o b.id, a.len + b.len,
                  IF a.b64 >= 0 THEN a.b64 ELSE IF b.b64 >= 0 THEN a.len + b.b64 ELSE -1)

\* s[:n]
Slice(s, n) == IF s.len <= n THEN s
               ELSE StrV(s.id \o "[:" \o ToString(n) \o "]", n,
                         IF s.b64 >= 0 /\ s.b64 + 6 <= n THEN s.b64 ELSE -1)

\* "\n".join(parts): a TypeError when a part is not a string
RECURSIVE JoinFrom(_, _)
JoinFrom(parts, i) ==
    IF i > Len(parts) THEN EmptyV
    ELSE IF i = Len(parts) THEN parts[i]
    ELSE Cat(Cat(parts[i], Lit("\n")), JoinFrom(parts, i + 1))

Ok(v) == [err |-> FALSE, val |-> v]
Raise == [err |-> TRUE, val |-> NullV]

Join(parts) == IF \E i \in 1..Len(parts) : parts[i].k # "str" THEN Raise
               ELSE Ok(JoinFrom(parts, 1))

(***************************************************************************)
(* Content blocks.  A block is a mapping (isdict) with the keys the code   *)
(* reads, or any other list element (raw).  source is the nested "source"  *)
(* of an attachment: k is "absent", "null", "str" (not a mapping) or       *)
(* "dict".                                                                 *)
(***************************************************************************)
Src(k, type, data, media) == [k |-> k, type |-> type, data |-> data, media_type |-> media]
NoSrc == Src("absent", ABSENT, AbsentV, ABSENT)

Item(type, text, source) == [isdict |-> TRUE, raw |-> AbsentV, type |-> type, text |-> text, source |-> source]
RawItem(v) == [isdict |-> FALSE, raw |-> v, type |-> ABSENT, text |-> AbsentV, source |-> NoSrc]

Block(type, text, thinking, name, content, source) ==
    [isdict |-> TRUE, raw |-> AbsentV, type |-> type, text |-> text, thinking |-> thinking,
     name |-> name, id |-> ABSENT, input |-> ABSENT, tool_use_id |-> ABSENT,
     content |-> content, source |-> source]
RawBlock(v) == [Block(ABSENT, AbsentV, AbsentV, AbsentV, AbsentV, NoSrc) EXCEPT !.isdict = FALSE, !.raw = v]

\* str(mapping): the repr of a mapping, by its type tag
Repr(b) == Lit("{'type': '" \o FmtTag(Get(b.type, "")) \o "'}")
StrOf(b) == IF b.isdict THEN Repr(b) ELSE FmtV(b.raw)

\* round(num / den) as Python's "{:.0f}" rounds: half to even
RoundHalfEven(num, den) ==
    LET q == num \div den
        r == num % den
    IN  IF 2 * r > den THEN q + 1
        ELSE IF 2 * r = den THEN (IF q % 2 = 1 THEN q + 1 ELSE q)
        ELSE q

\* "{size_kb:.0f}" of _base64_decoded_size_kb(encoded_len) = (encoded_len * 3 / 4) / 1024
base64_decoded_size_kb(encoded_len) == RoundHalfEven(encoded_len * 3, 4096)

Base64Window == 500
Base64MinLen == 1000

\* replace_base64_str looking for "base64" in the whole string
replace_base64_str_anywhere(content) ==
    IF content.b64 >= 0 /\ content.len > Base64MinLen
    THEN LET s == "[base64 content, ~" \o ToString(base64_decoded_size_kb(content.len)) \o "KB decoded]"
         IN  StrV(s, Len(s), 1)
    ELSE content

\* replace_base64_content on a plain string
replace_base64_str(content) ==
    IF content.b64 >= 0 /\ content.b64 + 6 <= Base64Window /\ content.len > Base64MinLen
    THEN LET s == "[base64 content, ~" \o ToString(base64_decoded_size_kb(content.len)) \o "KB decoded]"
         IN  StrV(s, Len(s), 1)
    ELSE content

\* the branch shared by the mapping and the list element: source = x.get("source", {})
\* and the placeholder for source.type == "base64"; other is what the caller
\* appends when the source is not base64
replace_base64_dict_or(x, other) ==
    IF x.source.k \in {"null", "str"} THEN Raise                  \* source.get: AttributeError
    ELSE IF x.source.k = "dict" /\ x.source.type = "base64"
    THEN LET data == GetV(x.source.data, EmptyV)
         IN  IF data.k \notin {"str", "list"} THEN Raise           \* len(data): TypeError
             ELSE Ok(Lit("[" \o FmtTag(Get(x.type, "file")) \o ": "
                         \o FmtTag(Get(x.source.media_type, "unknown")) \o ", ~"
                         \o ToString(base64_decoded_size_kb(IF data.k = "str" THEN data.len ELSE Len(data.items)))
                         \o "KB decoded]"))
    ELSE other

replace_base64_item(item) ==
    IF item.isdict
    THEN replace_base64_dict_or(item,
             IF item.type = "text" THEN Ok(GetV(item.text, EmptyV)) ELSE Ok(Repr(item)))
    ELSE Ok(FmtV(item.raw))

replace_base64_list(items) ==
    LET parts == [i \in 1..Len(items) |-> replace_base64_item(items[i])]
    IN  IF \E i \in 1..Len(items) : parts[i].err THEN Raise
        ELSE Join([i \in 1..Len(items) |-> parts[i].val])

replace_base64_content(content) ==
    CASE content.k = "str" -> Ok(replace_base64_str(content))
      [] content.k = "dict" -> replace_base64_dict_or(content.items[1], Ok(Repr(content.items[1])))
      [] content.k = "list" -> replace_base64_list(content.items)
      [] OTHER -> Ok(FmtV(content))

\* extract_text_block appending a thinking block's text like a text block's
extract_text_block_with_thinking(block) ==
    IF block.isdict /\ block.type = "thinking"
    THEN [err |-> FALSE, skip |-> FALSE, val |-> GetV(block.thinking, EmptyV)]
    ELSE [err |-> FALSE, skip |-> FALSE, val |-> IF block.isdict THEN GetV(block.text, EmptyV) ELSE FmtV(block.raw)]

\* what one block of a list contributes to extract_text's parts:
\* [err, skip, val]; skip for a thinking block
extract_text_block(block) ==
    IF ~block.isdict THEN [err |-> FALSE, skip |-> FALSE, val |-> FmtV(block.raw)]
    ELSE CASE block.type = "text" ->
                [err |-> FALSE, skip |-> FALSE, val |-> GetV(block.text, EmptyV)]
           [] block.type = "thinking" ->
                [err |-> FALSE, skip |-> TRUE, val |-> EmptyV]
           [] block.type = "tool_use" ->
                [err |-> FALSE, skip |-> FALSE,
                 val |-> Cat(Cat(Lit("[tool_use: "), FmtV(GetV(block.name, EmptyV))), Lit("]"))]
           [] block.type = "tool_result" ->
                LET result == replace_base64_content(GetV(block.content, EmptyV))
                IN  [err |-> result.err, skip |-> FALSE, val |-> result.val]
           [] block.type \in {"image", "document"} ->
                LET result == replace_base64_content(DictV(block))
                IN  [err |-> result.err, skip |-> FALSE, val |-> result.val]
           [] OTHER ->
                [err |-> FALSE, skip |-> FALSE, val |-> Repr(block)]

RECURSIVE KeepParts(_, _)
KeepParts(contribs, i) ==
    IF i > Len(contribs) THEN <<>>
    ELSE (IF contribs[i].skip THEN <<>> ELSE <<contribs[i].val>>) \o KeepParts(contribs, i + 1)

extract_text(raw_content) ==
    CASE raw_content.k \in {"null", "absent"} -> Ok(EmptyV)
      [] raw_content.k = "str" -> Ok(raw_content)
      [] raw_content.k = "list" ->
            LET contribs == [i \in 1..Len(raw_content.items) |-> extract_text_block(raw_content.items[i])]
            IN  IF \E i \in 1..Len(contribs) : contribs[i].err THEN Raise
                ELSE Join(KeepParts(contribs, 1))
      [] OTHER -> Ok(FmtV(raw_content))

RECURSIVE ThinkingParts(_, _)
ThinkingParts(blocks, i) ==
    IF i > Len(blocks) THEN <<>>
    ELSE (IF blocks[i].isdict /\ blocks[i].type = "thinking"
             /\ TruthyV(GetV(blocks[i].thinking, EmptyV))
          THEN <<blocks[i].thinking>> ELSE <<>>) \o ThinkingParts(blocks, i + 1)

extract_thinking(raw_content) ==
    IF raw_content.k # "list" THEN Ok(NullV)
    ELSE LET parts == ThinkingParts(raw_content.items, 1)
         IN  IF parts = <<>> THEN Ok(NullV) ELSE Join(parts)

RECURSIVE ToolCalls(_, _)
ToolCalls(blocks, i) ==
    IF i > Len(blocks) THEN <<>>
    ELSE (IF blocks[i].isdict /\ blocks[i].type = "tool_use"
          THEN <<[id |-> Get(blocks[i].id, ""), name |-> GetV(blocks[i].name, EmptyV),
                  input |-> Get(blocks[i].input, "{}")]>>
          ELSE <<>>) \o ToolCalls(blocks, i + 1)

extract_tool_calls(raw_content) ==
    IF raw_content.k # "list" THEN <<>> ELSE ToolCalls(raw_content.items, 1)

(***************************************************************************)
(* Raw records (one parsed line or array element).  Every key the          *)
(* normalizer reads is a field; ABSENT is a missing key.  message.k and    *)
(* usage.k are "absent", "null" or "dict".  A token count or duration is   *)
(* [k, n]: k is "int", "null", "absent" or "big" (an integer beyond the    *)
(* store's 64-bit INTEGER).                                                *)
(***************************************************************************)
IntV(n) == [k |-> "int", n |-> n]
NullInt == [k |-> "null", n |-> 0]
AbsentInt == [k |-> "absent", n |-> 0]
BigInt == [k |-> "big", n |-> 0]
\* usage.get(key, 0)
GetInt(t) == IF t.k = "absent" THEN IntV(0) ELSE t
\* record.get(key) of a count
GetNInt(t) == IF t.k = "absent" THEN NullInt ELSE t
\* x or None, for a count
IntOrNone(t) == IF t.k = "int" /\ t.n = 0 THEN NullInt ELSE t

Usage(k, input, output) ==
    [k |-> k, input_tokens |-> input, output_tokens |-> output,
     cache_read_input_tokens |-> AbsentInt, cache_creation_input_tokens |-> AbsentInt]
NoUsage == Usage("absent", AbsentInt, AbsentInt)

Msg(k, role, content, model, usage) ==
    [k |-> k, role |-> role, content |-> content, model |-> model, usage |-> usage,
     stop_reason |-> ABSENT]
NoMsg == Msg("absent", ABSENT, AbsentV, ABSENT, NoUsage)

BaseRecord ==
    [isdict |-> TRUE, type |-> ABSENT, source |-> ABSENT, original_uuid |-> ABSENT,
     name |-> ABSENT, sessionId |-> ABSENT, cwd |-> ABSENT, version |-> ABSENT,
     permissionMode |-> ABSENT, timestamp |-> ABSENT, summary |-> ABSENT,
     customTitle |-> ABSENT, message |-> NoMsg, content |-> AbsentV, uuid |-> ABSENT,
     parentUuid |-> ABSENT, isSidechain |-> ABSENT, stopReason |-> ABSENT,
     durationMs |-> AbsentInt]

\* x.get(key): None for a missing key
GetN(t) == Get(t, NULL)
GetNV(v) == GetV(v, NullV)
\* a or b
OrTag(a, b) == IF Truthy(a) THEN a ELSE b
OrV(a, b) == IF TruthyV(a) THEN a ELSE b

(***************************************************************************)
(* process_session: the running state of the single pass, one record at a  *)
(* time, and the session row assembled at the end.                         *)
(***************************************************************************)
MaxContentChars == 100000

InitAcc ==
    [session_id |-> NULL, summary |-> NULL, custom_title |-> NULL, models |-> {},
     total_input_tokens |-> 0, total_output_tokens |-> 0, timestamps |-> <<>>,
     cwd |-> NULL, client_version |-> NULL, permission_mode |-> NULL,
     message_rows |-> <<>>, msg_index |-> 0, source |-> "cli"]

\* json.dumps of the list of tool names
RECURSIVE JsonNames(_, _)
JsonNames(calls, i) ==
    LET n == calls[i].name
        one == IF n.k = "str" THEN "\"" \o n.id \o "\"" ELSE IF n.k = "null" THEN "null" ELSE "7"
    IN  IF i = Len(calls) THEN one ELSE one \o ", " \o JsonNames(calls, i + 1)

ToolNames(calls) == IF calls = <<>> THEN NULL ELSE "[" \o JsonNames(calls, 1) \o "]"

\* the first tool_result block of a list: [found, tool_use_id]
RECURSIVE FirstToolResult(_, _)
FirstToolResult(blocks, i) ==
    IF i > Len(blocks) THEN [found |-> FALSE, tool_use_id |-> NULL]
    ELSE IF blocks[i].isdict /\ blocks[i].type = "tool_result"
         THEN [found |-> TRUE, tool_use_id |-> GetN(blocks[i].tool_use_id)]
         ELSE FirstToolResult(blocks, i + 1)

\* IsBrowserMetadata without the test of the source marker
IsAnyMetadata(record) == record.type = "metadata"

\* the browser-export metadata record of lines 256-260
IsBrowserMetadata(record) == record.type = "metadata" /\ record.source = "browser_export"

\* SessionLevel with every record that carries a field overwriting it
SessionLevelLastWins(acc, record, stem) ==
    LET ts == GetN(record.timestamp)
    IN  [acc EXCEPT
           !.session_id = IF ~Truthy(acc.session_id) THEN Get(record.sessionId, stem) ELSE @,
           !.cwd = IF Truthy(record.cwd) THEN record.cwd ELSE @,
           !.client_version = IF Truthy(record.version) THEN record.version ELSE @,
           !.permission_mode = IF Truthy(record.permissionMode) THEN record.permissionMode ELSE @,
           !.timestamps = IF Truthy(ts) THEN Append(@, ts) ELSE @]

\* lines 263-274: the session-level fields every other record may set
SessionLevel(acc, record, stem) ==
    LET ts == GetN(record.timestamp)
    IN  [acc EXCEPT
           !.session_id = IF ~Truthy(acc.session_id) THEN Get(record.sessionId, stem) ELSE @,
           !.cwd = IF ~Truthy(acc.cwd) THEN GetN(record.cwd) ELSE @,
           !.client_version = IF ~Truthy(acc.client_version) THEN GetN(record.version) ELSE @,
           !.permission_mode = IF ~Truthy(acc.permission_mode) /\ Truthy(record.permissionMode)
                               THEN record.permissionMode ELSE @,
           !.timestamps = IF Truthy(ts) THEN Append(@, ts) ELSE @]

\* thinking_of whatever the role
thinking_of_any_role(role, raw_content) == extract_thinking(raw_content)

\* line 305: extract_thinking(raw_content) if role == "assistant" else None
thinking_of(role, raw_content) ==
    IF role = "assistant" THEN extract_thinking(raw_content) ELSE Ok(NullV)

\* lines 288-341: the message row of a conversational record; [err, acc]
EmitMessage(acc, record) ==
    LET msg == record.message
        rtype == GetN(record.type)
        role == OrTag(OrTag(GetN(msg.role), rtype), "unknown")
        raw_content == OrV(GetNV(msg.content), GetV(record.content, EmptyV))
        model == GetN(msg.model)
        usage == msg.usage
        input_tokens == GetInt(usage.input_tokens)
        output_tokens == GetInt(usage.output_tokens)
        cache_read == GetInt(usage.cache_read_input_tokens)
        cache_create == GetInt(usage.cache_creation_input_tokens)
        content_text == extract_text(raw_content)
        thinking == thinking_of(role, raw_content)
        tool_calls == extract_tool_calls(raw_content)
        tr == IF raw_content.k = "list" THEN FirstToolResult(raw_content.items, 1)
              ELSE [found |-> FALSE, tool_use_id |-> NULL]
        row == [session_id |-> acc.session_id,
                message_index |-> acc.msg_index,
                role |-> role,
                content |-> IF TruthyV(content_text.val) THEN Slice(content_text.val, MaxContentChars) ELSE EmptyV,
                thinking |-> IF TruthyV(thinking.val) THEN Slice(thinking.val, MaxContentChars) ELSE NullV,
                timestamp |-> GetN(record.timestamp),
                uuid |-> GetN(record.uuid),
                parent_uuid |-> GetN(record.parentUuid),
                model |-> model,
                record_type |-> rtype,
                tool_names |-> ToolNames(tool_calls),
                tool_use_id |-> tr.tool_use_id,
                is_tool_result |-> tr.found,
                is_sidechain |-> Get(record.isSidechain, "False"),
                input_tokens |-> IntOrNone(input_tokens),
                output_tokens |-> IntOrNone(output_tokens),
                cache_read_tokens |-> IntOrNone(cache_read),
                cache_create_tokens |-> IntOrNone(cache_create),
                stop_reason |-> OrTag(GetN(record.stopReason), GetN(msg.stop_reason)),
                duration_ms |-> GetNInt(record.durationMs)]
    IN  IF msg.k \notin {"absent", "dict"} THEN [err |-> TRUE, acc |-> acc]       \* msg.get: AttributeError
        ELSE IF usage.k \notin {"absent", "dict"} THEN [err |-> TRUE, acc |-> acc] \* usage.get: AttributeError
        ELSE IF input_tokens.k # "int" \/ output_tokens.k # "int"
             THEN [err |-> TRUE, acc |-> acc]                                      \* total += : TypeError
        ELSE IF content_text.err \/ thinking.err THEN [err |-> TRUE, acc |-> acc]
        ELSE [err |-> FALSE,
              acc |-> [acc EXCEPT
                         !.models = IF Truthy(model) THEN @ \cup {model} ELSE @,
                         !.total_input_tokens = @ + input_tokens.n,
                         !.total_output_tokens = @ + output_tokens.n,
                         !.message_rows = Append(@, row),
                         !.msg_index = @ + 1]]

\* process_record with a file-history-snapshot record consuming a message index
process_record_counting_snapshots(acc, record, stem) ==
    IF ~record.isdict THEN [err |-> TRUE, acc |-> acc]
    ELSE IF IsBrowserMetadata(record)
    THEN [err |-> FALSE,
          acc |-> [acc EXCEPT !.source = "browser",
                              !.session_id = Get(record.original_uuid, stem),
                              !.custom_title = GetN(record.name)]]
    ELSE LET a == SessionLevel(acc, record, stem)
         IN  CASE record.type = "summary" ->
                    [err |-> FALSE, acc |-> [a EXCEPT !.summary = Get(record.summary, "")]]
               [] record.type = "custom-title" ->
                    [err |-> FALSE, acc |-> [a EXCEPT !.custom_title = Get(record.customTitle, "")]]
               [] record.type = "file-history-snapshot" ->
                    [err |-> FALSE, acc |-> [a EXCEPT !.msg_index = @ + 1]]
               [] OTHER -> EmitMessage(a, record)

\* process_record with the browser-export metadata record going on to emit a row
process_record_emitting_marker(acc, record, stem) ==
    IF ~record.isdict THEN [err |-> TRUE, acc |-> acc]
    ELSE IF IsBrowserMetadata(record)
    THEN EmitMessage([acc EXCEPT !.source = "browser",
                                 !.session_id = Get(record.original_uuid, stem),
                                 !.custom_title = GetN(record.name)], record)
    ELSE LET a == SessionLevel(acc, record, stem)
         IN  CASE record.type = "summary" ->
                    [err |-> FALSE, acc |-> [a EXCEPT !.summary = Get(record.summary, "")]]
               [] record.type = "custom-title" ->
                    [err |-> FALSE, acc |-> [a EXCEPT !.custom_title = Get(record.customTitle, "")]]
               [] record.type = "file-history-snapshot" ->
                    [err |-> FALSE, acc |-> a]
               [] OTHER -> EmitMessage(a, record)

\* one iteration of the loop of lines 252-341; [err, acc]
process_record(acc, record, stem) ==
    IF ~record.isdict THEN [err |-> TRUE, acc |-> acc]                             \* record.get: AttributeError
    ELSE IF IsBrowserMetadata(record)
    THEN [err |-> FALSE,
          acc |-> [acc EXCEPT !.source = "browser",
                              !.session_id = Get(record.original_uuid, stem),
                              !.custom_title = GetN(record.name)]]
    ELSE LET a == SessionLevel(acc, record, stem)
         IN  CASE record.type = "summary" ->
                    [err |-> FALSE, acc |-> [a EXCEPT !.summary = Get(record.summary, "")]]
               [] record.type = "custom-title" ->
                    [err |-> FALSE, acc |-> [a EXCEPT !.custom_title = Get(record.customTitle, "")]]
               [] record.type = "file-history-snapshot" ->
                    [err |-> FALSE, acc |-> a]
               [] OTHER -> EmitMessage(a, record)

(***************************************************************************)
(* Timestamps and model names are compared as Python compares strings;     *)
(* the ones the inputs use are listed in that (lexicographic) order.       *)
(***************************************************************************)
TimestampOrder == <<"2025-01-01T00:00:00Z", "2025-01-01T00:00:01Z", "2025-01-01T00:00:02Z">>
ModelOrder == <<"claude-opus-4", "claude-sonnet-4">>

RankIn(order, t) == CHOOSE i \in 1..Len(order) : order[i] = t
InOrder(order, set) == \A t \in set : \E i \in 1..Len(order) : order[i] = t
SeqSet(seq) == {seq[i] : i \in 1..Len(seq)}

\* MinOf taking the greatest
GreatestOf(order, set) == CHOOSE t \in set : \A u \in set : RankIn(order, t) >= RankIn(order, u)

\* min(values) / max(values) of a non-empty collection of strings
MinOf(order, set) == CHOOSE t \in set : \A u \in set : RankIn(order, t) <= RankIn(order, u)
MaxOf(order, set) == CHOOSE t \in set : \A u \in set : RankIn(order, t) >= RankIn(order, u)

\* json.dumps(sorted(models))
RECURSIVE JsonSorted(_, _)
JsonSorted(order, set) ==
    IF set = {} THEN ""
    ELSE LET m == MinOf(order, set)
         IN  "\"" \o m \o "\"" \o (IF set = {m} THEN "" ELSE ", " \o JsonSorted(order, set \ {m}))

\* CountRole counting the rows of every role
CountAll(rows, role) == Len(rows)

\* sum(1 for m in message_rows if m["role"] == role)
CountRole(rows, role) == Cardinality({i \in 1..Len(rows) : rows[i].role = role})

\* lines 346-366: the session row; [err, row]
session_row_of(acc, file, project) ==
    LET ts == SeqSet(acc.timestamps)
    IN  IF ~InOrder(TimestampOrder, ts) \/ ~InOrder(ModelOrder, acc.models)
        THEN [err |-> TRUE, row |-> <<>>]            \* min / sorted of mixed types: TypeError
        ELSE [err |-> FALSE,
              row |-> <<[session_id |-> acc.session_id,
                         project |-> project,
                         cwd |-> acc.cwd,
                         client_version |-> acc.client_version,
                         permission_mode |-> acc.permission_mode,
                         models |-> IF acc.models = {} THEN NULL
                                    ELSE "[" \o JsonSorted(ModelOrder, acc.models) \o "]",
                         summary |-> acc.summary,
                         custom_title |-> acc.custom_title,
                         start_time |-> IF ts = {} THEN NULL ELSE MinOf(TimestampOrder, ts),
                         end_time |-> IF ts = {} THEN NULL ELSE MaxOf(TimestampOrder, ts),
                         message_count |-> Len(acc.message_rows),
                         user_message_count |-> CountRole(acc.message_rows, "user"),
                         assistant_message_count |-> CountRole(acc.message_rows, "assistant"),
                         total_input_tokens |-> acc.total_input_tokens,
                         total_output_tokens |-> acc.total_output_tokens,
                         total_tokens |-> acc.total_input_tokens + acc.total_output_tokens,
                         file_path |-> file.path,
                         file_size_bytes |-> file.size,
                         source |-> acc.source]>>]

(***************************************************************************)
(* The record parser.  A line of a line-delimited file is a sequence of    *)
(* pieces of text:                                                         *)
(*   k       "obj" (a JSON object), "scalar" (another JSON value), "junk"  *)
(*           (text that is no JSON), "ws" (white space), "bytes" (bytes    *)
(*           that are no UTF-8 text)                                       *)
(*   opener  how an object's text begins: "parentUuid" for {"parentUuid",  *)
(*           "type" for {"type": , "other"                                 *)
(*   closed  the object's text is complete (a truncated one is not)        *)
(*   inner   a nested object that begins {"type": (a content block):       *)
(*           "none", "tail" (text of the outer object follows it), "bare"  *)
(*           (the outer object is cut right after it)                      *)
(*   rec, innerRec  what the object and the nested object parse to         *)
(* An offset into a line is 2 * (piece index) for the piece's first        *)
(* character and 2 * (piece index) + 1 for its nested object's.            *)
(***************************************************************************)
Piece(k, opener, closed, inner, rec, innerRec) ==
    [k |-> k, opener |-> opener, closed |-> closed, inner |-> inner, rec |-> rec, innerRec |-> innerRec]

RECURSIVE LStrip(_)
LStrip(line) == IF line # <<>> /\ Head(line).k = "ws" THEN LStrip(Tail(line)) ELSE line
RECURSIVE RStrip(_)
RStrip(line) == IF line # <<>> /\ line[Len(line)].k = "ws" THEN RStrip(SubSeq(line, 1, Len(line) - 1)) ELSE line
Strip(line) == RStrip(LStrip(line))

\* json.loads(text): [ok, rec]
json_loads(text) ==
    IF Len(text) = 1 /\ text[1].k = "obj" /\ text[1].closed /\ text[1].inner # "bare"
    THEN [ok |-> TRUE, rec |-> text[1].rec]
    ELSE IF Len(text) = 1 /\ text[1].k = "scalar"
    THEN [ok |-> TRUE, rec |-> text[1].rec]
    ELSE [ok |-> FALSE, rec |-> BaseRecord]

\* [m.start() for m in re.finditer(pattern, line)]
RECURSIVE FindStarts(_, _, _)
FindStarts(line, opener, i) ==
    IF i > Len(line) THEN <<>>
    ELSE (IF line[i].k = "obj" /\ line[i].opener = opener THEN <<2 * i>> ELSE <<>>)
         \o (IF line[i].k = "obj" /\ line[i].inner # "none" /\ opener = "type" THEN <<2 * i + 1>> ELSE <<>>)
         \o FindStarts(line, opener, i + 1)

\* sorted(set(starts))
RECURSIVE SortedSet(_)
SortedSet(set) ==
    IF set = {} THEN <<>>
    ELSE LET m == CHOOSE x \in set : \A y \in set : x <= y
         IN  <<m>> \o SortedSet(set \ {m})

\* line[start:end].strip() parsed: the text from offset start up to offset end
Segment(line, start, end) ==
    LET j == start \div 2
        last == (end - 1) \div 2
        rest == Strip(SubSeq(line, j + 1, last))
    IN  IF start % 2 = 0
        THEN IF end = start + 1 THEN [ok |-> FALSE, rec |-> BaseRecord]
             ELSE json_loads(Strip(SubSeq(line, j, last)))
        ELSE IF line[j].inner = "bare" /\ rest = <<>>
             THEN [ok |-> TRUE, rec |-> line[j].innerRec]
             ELSE [ok |-> FALSE, rec |-> BaseRecord]

RECURSIVE ValidSegments(_, _, _)
ValidSegments(line, starts, i) ==
    IF i > Len(starts) THEN <<>>
    ELSE LET end == IF i + 1 <= Len(starts) THEN starts[i + 1] ELSE 2 * Len(line) + 2
             seg == Segment(line, starts[i], end)
         IN  (IF seg.ok THEN <<seg.rec>> ELSE <<>>) \o ValidSegments(line, starts, i + 1)

extract_records_from_bad_line(line) ==
    LET starts == SortedSet(SeqSet(FindStarts(line, "parentUuid", 1) \o FindStarts(line, "type", 1)))
    IN  IF starts = <<>> THEN <<>> ELSE ValidSegments(line, starts, 1)

\* lines 92-106: one line of the file, added to [records, warnings]
load_line(out, line, line_num, name) ==
    LET l == Strip(line)
        parsed == json_loads(l)
        extracted == extract_records_from_bad_line(l)
    IN  IF l = <<>> THEN out
        ELSE IF parsed.ok THEN [out EXCEPT !.records = Append(@, parsed.rec)]
        ELSE IF extracted # <<>> THEN [out EXCEPT !.records = @ \o extracted]
        ELSE [out EXCEPT !.warnings = Append(@, [file |-> name, line |-> line_num])]

RECURSIVE load_lines(_, _, _, _)
load_lines(out, lines, line_num, name) ==
    IF line_num > Len(lines) THEN out
    ELSE load_lines(load_line(out, lines[line_num], line_num, name), lines, line_num + 1, name)

\* A single-document file holds doc: k is "invalid" (no JSON), "dict", "list" or
\* "scalar"; a dict is the record rec, and has_loglines when it wraps loglines.
Doc(k, has_loglines, loglines, items, rec) ==
    [k |-> k, has_loglines |-> has_loglines, loglines |-> loglines, items |-> items, rec |-> rec]
NonDictRecord == [BaseRecord EXCEPT !.isdict = FALSE]
NoDoc == Doc("invalid", FALSE, <<>>, <<>>, BaseRecord)

\* open(filepath, "r", encoding="utf-8") reading a line that is no UTF-8 text:
\* UnicodeDecodeError
Undecodable(lines) == \E i \in 1..Len(lines) : \E j \in 1..Len(lines[i]) : lines[i][j].k = "bytes"

\* [err, records, warnings]; err is the json.load failure of a single-document
\* file or the decoding failure of a line-delimited one
load_session_file(file) ==
    IF file.suffix = ".json"
    THEN IF file.doc.k = "invalid" THEN [err |-> TRUE, records |-> <<>>, warnings |-> <<>>]
         ELSE IF file.doc.k = "dict" /\ file.doc.has_loglines
         THEN [err |-> FALSE, records |-> file.doc.loglines, warnings |-> <<>>]
         ELSE IF file.doc.k = "list"
         THEN [err |-> FALSE, records |-> file.doc.items, warnings |-> <<>>]
         ELSE [err |-> FALSE, records |-> <<file.doc.rec>>, warnings |-> <<>>]
    ELSE IF Undecodable(file.lines) THEN [err |-> TRUE, records |-> <<>>, warnings |-> <<>>]
    ELSE load_lines([err |-> FALSE, records |-> <<>>, warnings |-> <<>>], file.lines, 1, file.name)

RECURSIVE process_records(_, _, _, _)
process_records(res, records, i, stem) ==
    IF i > Len(records) \/ res.err THEN res
    ELSE CHOOSE val \in {process_records(r, records, i + 1, stem) :
                             r \in {process_record(res.acc, records[i], stem)}} : TRUE

\* NoOutput returning a session row without an identifier instead of None
EmptySessionOutput(warnings) ==
    [err |-> FALSE, session |-> <<[session_id |-> NULL]>>, message_rows |-> <<>>, warnings |-> warnings]

NoOutput(warnings) == [err |-> FALSE, session |-> <<>>, message_rows |-> <<>>, warnings |-> warnings]
Raised == [err |-> TRUE, session |-> <<>>, message_rows |-> <<>>, warnings |-> <<>>]

\* lines 343-368: what the pass returns for its final running state
finish_session(acc, file, project, warnings) ==
    LET sr == session_row_of(acc, file, project)
    IN  IF ~Truthy(acc.session_id) THEN NoOutput(warnings)
        ELSE IF sr.err THEN Raised
        ELSE [err |-> FALSE, session |-> sr.row, message_rows |-> acc.message_rows,
              warnings |-> warnings]

\* [err, session, message_rows, warnings]; session is <<>> for None
process_session(file, project) ==
    CHOOSE val \in
        {IF loaded.err THEN Raised
         ELSE IF loaded.records = <<>> THEN NoOutput(loaded.warnings)
         ELSE CHOOSE o \in
                  {IF res.err THEN Raised
                   ELSE finish_session(res.acc, file, project, loaded.warnings) :
                      res \in {process_records([err |-> FALSE, acc |-> InitAcc],
                                               loaded.records, 1, file.stem)}} : TRUE :
            loaded \in {load_session_file(file)}} : TRUE

(***************************************************************************)
(* process_web_conversation: one conversation of a claude.ai export.       *)
(* chat_messages.k is "absent", "null" or "list".                          *)
(***************************************************************************)
Turn(sender, content, text, created_at) ==
    [isdict |-> TRUE, sender |-> sender, content |-> content, text |-> text,
     created_at |-> created_at, uuid |-> ABSENT]
NonDictTurn == [Turn(ABSENT, AbsentV, AbsentV, ABSENT) EXCEPT !.isdict = FALSE]

Conversation(uuid, name, turns_k, turns) ==
    [isdict |-> TRUE, uuid |-> uuid, name |-> name, summary |-> ABSENT,
     created_at |-> ABSENT, updated_at |-> ABSENT,
     chat_messages |-> [k |-> turns_k, items |-> turns]]
NonDictConversation == [Conversation(ABSENT, ABSENT, "absent", <<>>) EXCEPT !.isdict = FALSE]

\* web_role without the table
web_role_unmapped(sender) == sender

\* {"human": "user", "assistant": "assistant"}.get(sender, sender)
web_role(sender) == IF sender = "human" THEN "user" ELSE sender

\* x[:n] of a string or a list
SliceV(v, n) ==
    IF v.k = "list" THEN ListV(SubSeq(v.items, 1, IF Len(v.items) <= n THEN Len(v.items) ELSE n))
    ELSE Slice(v, n)

\* lines 419-459: the message row of one chat turn; [err, row]
web_message_row(session_id, msg_index, msg) ==
    LET sender == Get(msg.sender, "unknown")
        role == web_role(sender)
        raw_content == GetNV(msg.content)
        text_field == GetV(msg.text, EmptyV)
        structured == raw_content.k = "list" /\ raw_content.items # <<>>
        content_text == IF structured THEN extract_text(raw_content) ELSE Ok(OrV(text_field, EmptyV))
        thinking == IF structured THEN extract_thinking(raw_content) ELSE Ok(NullV)
        row == [session_id |-> session_id,
                message_index |-> msg_index,
                role |-> role,
                content |-> IF TruthyV(content_text.val) THEN SliceV(content_text.val, MaxContentChars) ELSE EmptyV,
                thinking |-> IF TruthyV(thinking.val) THEN Slice(thinking.val, MaxContentChars) ELSE NullV,
                timestamp |-> GetN(msg.created_at),
                uuid |-> GetN(msg.uuid),
                parent_uuid |-> NULL,
                model |-> NULL,
                record_type |-> role,
                tool_names |-> NULL,
                tool_use_id |-> NULL,
                is_tool_result |-> FALSE,
                is_sidechain |-> "False",
                input_tokens |-> NullInt,
                output_tokens |-> NullInt,
                cache_read_tokens |-> NullInt,
                cache_create_tokens |-> NullInt,
                stop_reason |-> NULL,
                duration_ms |-> NullInt]
    IN  IF ~msg.isdict THEN [err |-> TRUE, row |-> <<>>]                    \* msg.get: AttributeError
        ELSE IF content_text.err \/ thinking.err THEN [err |-> TRUE, row |-> <<>>]
        ELSE IF content_text.val.k \in {"num", "dict"}
        THEN [err |-> TRUE, row |-> <<>>]                                   \* text[:100_000]: TypeError
        ELSE [err |-> FALSE, row |-> <<row>>]

\* the loop of lines 418-459 from turn i on; [err, rows]
RECURSIVE web_message_rows(_, _, _, _)
web_message_rows(res, session_id, turns, i) ==
    IF i > Len(turns) \/ res.err THEN res
    ELSE CHOOSE val \in
             {web_message_rows(r, session_id, turns, i + 1) :
                 r \in {[err |-> row.err, rows |-> res.rows \o row.row] :
                           row \in {web_message_row(session_id, i - 1, turns[i])}}} : TRUE

\* lines 461-481: the session row of a conversation; [err, row]
web_session_row(conversation, message_rows, zip) ==
    LET ts == {message_rows[i].timestamp : i \in 1..Len(message_rows)} \ {NULL, ""}
    IN  IF ~InOrder(TimestampOrder, ts) THEN [err |-> TRUE, row |-> <<>>]
        ELSE [err |-> FALSE,
              row |-> <<[session_id |-> Get(conversation.uuid, ""),
                         project |-> NULL,
                         cwd |-> NULL,
                         client_version |-> NULL,
                         permission_mode |-> NULL,
                         models |-> NULL,
                         summary |-> OrTag(Get(conversation.summary, ""), NULL),
                         custom_title |-> OrTag(Get(conversation.name, ""), NULL),
                         start_time |-> IF ts = {} THEN GetN(conversation.created_at)
                                        ELSE MinOf(TimestampOrder, ts),
                         end_time |-> IF ts = {} THEN GetN(conversation.updated_at)
                                      ELSE MaxOf(TimestampOrder, ts),
                         message_count |-> Len(message_rows),
                         user_message_count |-> CountRole(message_rows, "user"),
                         assistant_message_count |-> CountRole(message_rows, "assistant"),
                         total_input_tokens |-> 0,
                         total_output_tokens |-> 0,
                         total_tokens |-> 0,
                         file_path |-> zip.path,
                         file_size_bytes |-> zip.size,
                         source |-> "web"]>>]

\* [err, session, message_rows, warnings]; session is <<>> for None
process_web_conversation(conversation, zip) ==
    LET session_id == Get(conversation.uuid, "")
        chat == conversation.chat_messages
    IN  IF ~conversation.isdict THEN Raised                                 \* conversation.get: AttributeError
        ELSE IF chat.k # "list" \/ chat.items = <<>> THEN NoOutput(<<>>)
        ELSE CHOOSE val \in
                 {LET sr == web_session_row(conversation, res.rows, zip)
                  IN  IF res.err \/ sr.err THEN Raised
                      ELSE [err |-> FALSE, session |-> sr.row, message_rows |-> res.rows,
                            warnings |-> <<>>] :
                     res \in {web_message_rows([err |-> FALSE, rows |-> <<>>], session_id,
                                               chat.items, 1)}} : TRUE

(***************************************************************************)
(* The store.  A table is the sequence of its rows in rowid order; the     *)
(* store is [sessions, messages, tables, indexes, views], tables holding   *)
(* the names of the tables that exist (the full-text table included) and   *)
(* views the names of the views in the order of their creation.            *)
(***************************************************************************)
EmptyDb == [sessions |-> <<>>, messages |-> <<>>, tables |-> {}, indexes |-> {}, views |-> <<>>]

SessionsPk == {"session_id"}
MessagesPk == {"session_id", "message_index"}

\* INSERT OR REPLACE finds a stored row in the way of the new one when every
\* primary-key column is equal; a NULL key column equals nothing, itself included
Conflicts(old, new, pk) ==
    \A c \in pk : old[c] = new[c] /\ ~(c = "session_id" /\ new[c] = NULL)

\* the store binds a row when each integer fits its 64-bit INTEGER
IntColumns == {"input_tokens", "output_tokens", "cache_read_tokens", "cache_create_tokens", "duration_ms"}
Storable(row) == \A c \in IntColumns \cap DOMAIN row : row[c].k # "big"

\* the rows of the table from the i-th on that the new row does not replace
RECURSIVE Kept(_, _, _, _)
Kept(table, new, pk, i) ==
    IF i > Len(table) THEN <<>>
    ELSE (IF Conflicts(table[i], new, pk) THEN <<>> ELSE <<table[i]>>) \o Kept(table, new, pk, i + 1)

RECURSIVE insert_rows(_, _, _, _)
insert_rows(table, rows, i, pk) ==
    IF i > Len(rows) THEN table
    ELSE insert_rows(Append(Kept(table, rows[i], pk, 1), rows[i]), rows, i + 1, pk)

\* db[name].insert_all(rows, pk=pk, replace=True), the rows of one chunk in one
\* transaction: the table is created when missing, then either every row is
\* written or the statement raises and none is; [err, db]
insert_all(d, name, rows, pk) ==
    LET created == [d EXCEPT !.tables = @ \cup {name}]
    IN  IF \E i \in 1..Len(rows) : ~Storable(rows[i])
        THEN [err |-> TRUE, db |-> created]
        ELSE [err |-> FALSE, db |-> [created EXCEPT ![name] = insert_rows(@, rows, 1, pk)]]

\* save_session: the session row, then the message rows, each insert committed
\* on its own; [err, db]
save_session(d, session_row, message_rows) ==
    CHOOSE val \in
        {IF s.err \/ message_rows = <<>> THEN s
         ELSE insert_all(s.db, "messages", message_rows, MessagesPk) :
            s \in {insert_all(d, "sessions", <<session_row>>, SessionsPk)}} : TRUE

MessagesIndexes == {<<"messages", c>> : c \in {"session_id", "role", "timestamp", "model"}}
SessionsIndexes == {<<"sessions", c>> : c \in {"project", "start_time"}}
ViewRequires ==
    [tool_usage |-> {"messages"}, sessions_overview |-> {"sessions"},
     projects_summary |-> {"sessions"}, daily_activity |-> {"sessions"},
     model_usage |-> {"messages"}]

\* the names of VIEWS in the order of the dict
ViewOrder == <<"tool_usage", "sessions_overview", "projects_summary", "daily_activity", "model_usage">>

\* create_view without a look at the views that exist
create_view_anew(views, name) == Append(views, name)

\* db.create_view(name, sql, replace=True): a view of that name and that SQL is
\* left as it is
create_view(views, name) ==
    IF \E k \in 1..Len(views) : views[k] = name THEN views ELSE Append(views, name)

\* lines 666-668, from the i-th view of VIEWS on
RECURSIVE create_views(_, _, _)
create_views(views, table_names, i) ==
    IF i > Len(ViewOrder) THEN views
    ELSE create_views(IF ViewRequires[ViewOrder[i]] \subseteq table_names
                      THEN create_view(views, ViewOrder[i]) ELSE views,
                      table_names, i + 1)

ensure_db_shape(d) ==
    LET table_names == d.tables
    IN  [d EXCEPT
           !.indexes = @ \cup (IF "messages" \in table_names THEN MessagesIndexes ELSE {})
                         \cup (IF "sessions" \in table_names THEN SessionsIndexes ELSE {}),
           !.tables = IF "messages" \in table_names /\ "messages_fts" \notin table_names
                      THEN @ \cup {"messages_fts"} ELSE @,
           !.views = create_views(@, table_names, 1)]

(***************************************************************************)
(* Paths.  A directory name is the sequence of the pieces its '-' signs    *)
(* separate ("-home-user-app" is <<"", "home", "user", "app">>); a file    *)
(* name is the sequence of tokens it is written with (<<"agent-", "1",     *)
(* ".jsonl">>), so that a test for a substring is a test for a token.  The *)
(* root (session_dir) is [rooted, segs]: rooted when it starts at "/".     *)
(***************************************************************************)
RECURSIVE JoinWith(_, _)
JoinWith(parts, sep) ==
    IF parts = <<>> THEN ""
    ELSE IF Len(parts) = 1 THEN parts[1]
    ELSE parts[1] \o sep \o JoinWith(Tail(parts), sep)

DirName(dir) == JoinWith(dir, "-")

\* the segments of filepath.as_posix()
PosixSegs(root, file) ==
    root.segs \o [i \in 1..Len(file.dirs) |-> DirName(file.dirs[i])] \o <<JoinWith(file.tokens, "")>>

PosixPath(root, file) ==
    (IF root.rooted THEN "/" ELSE "") \o JoinWith(PosixSegs(root, file), "/")

\* re.search of [\\/]name[\\/]: a directory segment with a separator on both sides
HasDirSegment(root, file, names) ==
    LET segs == PosixSegs(root, file)
    IN  \E i \in 1..(Len(segs) - 1) : segs[i] \in names /\ (i > 1 \/ root.rooted)

should_skip_file(root, file, include_agents) ==
    \/ HasDirSegment(root, file, {"subagent", "subagents"})
    \/ HasDirSegment(root, file, {"processing"})
    \/ ~include_agents /\ file.tokens[1] = "agent-"
    \/ ".backup" \in SeqSet(file.tokens)
    \/ " copy" \in SeqSet(file.tokens) \/ "(1)" \in SeqSet(file.tokens)
    \/ JoinWith(file.tokens, "") \in {"sessions-index.json", "timeline.json"}
    \/ ".timelines" \in SeqSet(PosixSegs(root, file)) \cup SeqSet(file.tokens)

\* dir_to_project returning every name unchanged
dir_to_project_verbatim(dir) == DirName(dir)

dir_to_project(dir) ==
    IF dir[1] = "" /\ Len(dir) > 1 THEN "/" \o JoinWith(Tail(dir), "/") ELSE DirName(dir)

\* _project_from_path: rel.parts[0] when the file lies in a directory of the root
project_from_path(file) ==
    IF file.dirs # <<>> THEN dir_to_project(file.dirs[1]) ELSE "default"

(***************************************************************************)
(* A claude.ai export archive: [name, entries], an entry being [filename,  *)
(* file_size, json], filename a sequence of tokens and json [k, items]     *)
(* with k "list" or "invalid".                                             *)
(***************************************************************************)
MAX_ZIP_ENTRY_BYTES == 500 * 1024 * 1024

\* the first entry whose name ends with conversations.json; 0 when there is none
RECURSIVE FirstManifest(_, _)
FirstManifest(entries, i) ==
    IF i > Len(entries) THEN 0
    ELSE IF entries[i].filename[Len(entries[i].filename)] = "conversations.json" THEN i
    ELSE FirstManifest(entries, i + 1)

\* load_web_export without the test of the size ceiling
load_web_export_unchecked(archive) ==
    LET i == FirstManifest(archive.entries, 1)
    IN  IF i = 0 THEN [err |-> TRUE, conversations |-> <<>>]
        ELSE IF archive.entries[i].json.k = "invalid" THEN [err |-> TRUE, conversations |-> <<>>]
        ELSE [err |-> FALSE, conversations |-> archive.entries[i].json.items]

\* lines 373-400; [err, conversations]
load_web_export(archive) ==
    LET i == FirstManifest(archive.entries, 1)
    IN  IF i = 0 THEN [err |-> TRUE, conversations |-> <<>>]                        \* ValueError
        ELSE IF archive.entries[i].file_size > MAX_ZIP_ENTRY_BYTES
        THEN [err |-> TRUE, conversations |-> <<>>]                                 \* ValueError
        ELSE IF archive.entries[i].json.k = "invalid"
        THEN [err |-> TRUE, conversations |-> <<>>]                                 \* json.load
        ELSE [err |-> FALSE, conversations |-> archive.entries[i].json.items]

(***************************************************************************)
(* Inputs.  The texts, blocks, records, lines, files and conversations the *)
(* checks run over.                                                        *)
(***************************************************************************)
MaxBlocks == 2
MaxLines == 3
MaxTurns == 2

SeqsUpTo(S, n) == UNION {[1..m -> S] : m \in 0..n}

\* a 2000-character string with "base64" at offset 5, a 100,001-character text
LongBase64 == StrV("data:base64,AAAA...", 2000, 5)
LongText == StrV("xxxx...", MaxContentChars + 1, -1)
\* "base64" ending at character 500, starting one character later, and a
\* 1000-character string
EdgeBase64 == StrV("x{494}base64AAAA...", Base64MinLen + 1, Base64Window - 6)
LateBase64 == StrV("x{495}base64AAAA...", Base64MinLen + 1, Base64Window - 5)
ShortBase64 == StrV("data:base64,AAA...", Base64MinLen, 5)

Base64Src == Src("dict", "base64", StrV("AAAA...", 4096, -1), "image/png")

TextBlock(text) == Block("text", text, AbsentV, AbsentV, AbsentV, NoSrc)
ThinkingBlock(thinking) == Block("thinking", AbsentV, thinking, AbsentV, AbsentV, NoSrc)
ToolUseBlock(name) == [Block("tool_use", AbsentV, AbsentV, name, AbsentV, NoSrc) EXCEPT !.id = "toolu_1"]
ToolResultBlock(content) == [Block("tool_result", AbsentV, AbsentV, AbsentV, content, NoSrc) EXCEPT !.tool_use_id = "toolu_1"]
ImageBlock(source) == Block("image", AbsentV, AbsentV, AbsentV, AbsentV, source)

BlockSamples ==
    {TextBlock(t) : t \in {Lit("X"), AbsentV, NullV, NumV}}
    \cup {ThinkingBlock(t) : t \in {Lit("T"), EmptyV, AbsentV, NullV, NumV}}
    \cup {ToolUseBlock(n) : n \in {Lit("Bash"), AbsentV, NullV}}
    \cup {ToolResultBlock(c) : c \in
            {Lit("ok"), AbsentV, NullV, LongBase64,
             ListV(<<Item("text", Lit("r"), NoSrc)>>),
             ListV(<<Item("text", NullV, NoSrc)>>),
             ListV(<<Item("image", AbsentV, Base64Src), RawItem(Lit("s"))>>),
             ListV(<<Item("image", AbsentV, Src("null", ABSENT, AbsentV, ABSENT))>>)}}
    \cup {ImageBlock(src) : src \in
            {Base64Src, NoSrc, Src("null", ABSENT, AbsentV, ABSENT),
             Src("dict", "base64", NullV, ABSENT), Src("dict", "url", AbsentV, ABSENT)}}
    \cup {Block("document", AbsentV, AbsentV, AbsentV, AbsentV, Base64Src),
          Block("server_tool_use", AbsentV, AbsentV, AbsentV, AbsentV, NoSrc),
          Block(ABSENT, Lit("X"), AbsentV, AbsentV, AbsentV, NoSrc),
          RawBlock(Lit("raw")), RawBlock(NullV)}

ContentSamples ==
    {NullV, EmptyV, Lit("hello"), LongBase64, EdgeBase64, LateBase64, ShortBase64, LongText, NumV,
     DictV(ImageBlock(Base64Src))}
    \cup {ListV(bs) : bs \in SeqsUpTo(BlockSamples, MaxBlocks)}

T1 == TimestampOrder[1]
T2 == TimestampOrder[2]
T3 == TimestampOrder[3]

UserRecord(sid, ts, text) ==
    [BaseRecord EXCEPT !.type = "user", !.sessionId = sid, !.timestamp = ts,
                       !.cwd = "/home/user/app", !.version = "2.0.0", !.uuid = "u-1",
                       !.message = Msg("dict", "user", text, ABSENT, NoUsage)]
AssistantRecord(sid, ts, content) ==
    [BaseRecord EXCEPT !.type = "assistant", !.sessionId = sid, !.timestamp = ts,
                       !.cwd = "/srv/other", !.version = "2.1.0", !.uuid = "a-1", !.parentUuid = "u-1",
                       !.permissionMode = "default",
                       !.message = Msg("dict", "assistant", content, ModelOrder[1],
                                       Usage("dict", IntV(10), IntV(5)))]
BrowserMetadata(original_uuid) ==
    [BaseRecord EXCEPT !.type = "metadata", !.source = "browser_export",
                       !.original_uuid = original_uuid, !.name = "Browser chat"]
OtherMetadata == [BaseRecord EXCEPT !.type = "metadata", !.sessionId = "A", !.timestamp = T1]
SummaryRecord == [BaseRecord EXCEPT !.type = "summary", !.summary = "Test session"]
TitleRecord == [BaseRecord EXCEPT !.type = "custom-title", !.customTitle = "My title", !.sessionId = "A"]
SnapshotRecord == [BaseRecord EXCEPT !.type = "file-history-snapshot"]
\* a browser-export metadata record and a summary record that carry session-level keys
StampedMarker ==
    [BrowserMetadata("B") EXCEPT !.timestamp = T1, !.cwd = "/browser", !.version = "0.9.0",
                                 !.permissionMode = "plan"]
StampedSummary == [SummaryRecord EXCEPT !.timestamp = T2]

ThinkingTextTool == ListV(<<ThinkingBlock(Lit("T")), TextBlock(Lit("X")), ToolUseBlock(Lit("Bash"))>>)
\* a record of type assistant whose message is of role user, and a record of
\* type user whose message is of role assistant, both with a thinking block
RelayedRecord == [AssistantRecord("A", T2, ThinkingTextTool) EXCEPT !.message.role = "user"]
UntypedReply == [UserRecord("A", T3, ThinkingTextTool) EXCEPT !.message.role = "assistant"]

RecordSamples ==
    {BrowserMetadata("B"), BrowserMetadata(NULL), OtherMetadata, SummaryRecord, TitleRecord,
     SnapshotRecord,
     UserRecord("A", T2, Lit("hello")), UserRecord("B", T1, Lit("hello")),
     UserRecord("", T2, Lit("hello")),
     AssistantRecord("A", T3, ThinkingTextTool)}

\* the text of a record written on one line
ObjLine(rec) ==
    <<Piece("obj", "type", TRUE,
            IF rec.message.content.k = "list" THEN "tail" ELSE "none", rec, BaseRecord)>>
WsPiece == Piece("ws", "other", FALSE, "none", BaseRecord, BaseRecord)
JunkLine == <<Piece("junk", "other", FALSE, "none", BaseRecord, BaseRecord)>>
ScalarLine == <<Piece("scalar", "other", TRUE, "none", NonDictRecord, BaseRecord)>>
\* a record cut short, followed on the same line by a whole record
ConcatLine ==
    <<Piece("obj", "type", FALSE, "none", UserRecord("A", T1, Lit("hello")), BaseRecord),
      Piece("obj", "type", TRUE, "none", AssistantRecord("A", T2, Lit("hi")), BaseRecord)>>

\* two whole records on one line: with string content, and with content blocks
ConcatWhole ==
    <<Piece("obj", "type", TRUE, "none", UserRecord("A", T1, Lit("hello")), BaseRecord),
      Piece("obj", "type", TRUE, "none", AssistantRecord("A", T2, Lit("hi")), BaseRecord)>>
ConcatNested ==
    <<Piece("obj", "type", TRUE, "tail", AssistantRecord("A", T1, ThinkingTextTool), BaseRecord),
      Piece("obj", "parentUuid", TRUE, "tail", AssistantRecord("A", T2, ThinkingTextTool), BaseRecord)>>
\* a line of bytes that are no UTF-8 text
BytesLine == <<Piece("bytes", "other", FALSE, "none", BaseRecord, BaseRecord)>>

LineSamples ==
    {ObjLine(r) : r \in RecordSamples} \cup {<<WsPiece>>, JunkLine, ScalarLine, ConcatLine}
\* the lines a damaged file holds after a first line, before the rest of the file
DamagedLineSamples == {ConcatWhole, ConcatNested, BytesLine}

File(name, stem, suffix, lines, doc) ==
    [path |-> "/data/-home-user-app/" \o name, name |-> name, stem |-> stem, suffix |-> suffix,
     lines |-> lines, doc |-> doc, size |-> 1024]
JsonlFile(lines) == File("f.jsonl", "f", ".jsonl", lines, NoDoc)
JsonFile(doc) == File("f.json", "f", ".json", <<>>, doc)

DocSamples ==
    {NoDoc,
     Doc("dict", TRUE, <<BrowserMetadata("B"), UserRecord("A", T2, Lit("hello"))>>, <<>>, BaseRecord),
     Doc("list", FALSE, <<>>, <<SnapshotRecord, UserRecord("A", T2, Lit("hello"))>>, BaseRecord),
     Doc("dict", FALSE, <<>>, <<>>, UserRecord("A", T2, Lit("hello"))),
     Doc("list", FALSE, <<>>, <<UserRecord("A", T1, LongText),
                                AssistantRecord("A", T2, ListV(<<ThinkingBlock(LongText)>>))>>, BaseRecord),
     Doc("list", FALSE, <<>>, <<StampedMarker, StampedSummary,
                                UserRecord("A", T3, Lit("hello"))>>, BaseRecord),
     Doc("list", FALSE, <<>>, <<UserRecord("A", T1, ThinkingTextTool), RelayedRecord, UntypedReply>>,
         BaseRecord),
     Doc("scalar", FALSE, <<>>, <<>>, NonDictRecord)}

FileSamples ==
    {JsonlFile(lines) : lines \in SeqsUpTo(LineSamples, MaxLines)}
    \cup {JsonlFile(<<first, damaged>> \o rest) :
             first \in {ObjLine(UserRecord("A", T2, Lit("hello"))), JunkLine},
             damaged \in DamagedLineSamples,
             rest \in SeqsUpTo({ObjLine(UserRecord("B", T1, Lit("hello"))), JunkLine}, MaxLines - 2)}
    \cup {JsonFile(doc) : doc \in DocSamples}

TurnSamples ==
    {Turn("human", AbsentV, Lit("hi"), T1),
     Turn("assistant", ListV(<<ThinkingBlock(Lit("T")), TextBlock(Lit("X"))>>), Lit("X"), T2),
     Turn("system", ListV(<<>>), AbsentV, ABSENT),
     Turn("human", ListV(<<TextBlock(NullV)>>), Lit("hi"), T1),
     Turn("human", AbsentV, LongText, T1),
     Turn("human", AbsentV, ListV(<<RawItem(LongText)>>), T1),
     Turn("human", AbsentV, NumV, T1),
     NonDictTurn}

ConversationSamples ==
    {Conversation(uuid, "Chat", "list", turns) :
        uuid \in {"W", ABSENT}, turns \in SeqsUpTo(TurnSamples, MaxTurns)}
    \cup {Conversation("W", "Chat", "absent", <<>>), Conversation("W", "Chat", "null", <<>>),
          NonDictConversation}

ZipFile == [path |-> "/data/export.zip", size |-> 4096]

(***************************************************************************)
(* What the commands run over: the entries of a session directory, the     *)
(* archives of a web export, the stores a run may start from.              *)
(***************************************************************************)
MaxFiles == 2
MaxLimit == 1
MaxConversations == 2

\* the path of a file below the root
DirEntry(dirs, tokens) == [dirs |-> dirs, tokens |-> tokens]

AppDir == <<"", "home", "user", "app">>

EntryA == DirEntry(<<AppDir>>, <<"a", ".jsonl">>)
EntryAgent == DirEntry(<<AppDir>>, <<"agent-", "1", ".jsonl">>)
EntryA2 == DirEntry(<<<<"", "srv", "other">>>>, <<"a2", ".jsonl">>)
EntryB == DirEntry(<<>>, <<"b", ".jsonl">>)
EntryBad == DirEntry(<<>>, <<"bad", ".json">>)
EntryE == DirEntry(<<>>, <<"e", ".jsonl">>)
EntryN == DirEntry(<<>>, <<"n", ".jsonl">>)
EntryP == DirEntry(<<<<"my", "project">>>>, <<"p", ".jsonl">>)
EntryNotes == DirEntry(<<>>, <<"notes", ".txt">>)
EntrySub == DirEntry(<<<<"subagents">>>>, <<"s", ".jsonl">>)
EntryT == DirEntry(<<>>, <<"t", ".jsonl">>)

\* what the files hold
LinesOf(e) ==
    CASE e = EntryA ->      \* session A, two messages
            <<ObjLine(UserRecord("A", T1, Lit("hello"))),
              ObjLine(AssistantRecord("A", T2, ThinkingTextTool))>>
      [] e = EntryAgent -> <<ObjLine(UserRecord("G", T1, Lit("hello")))>>
      [] e = EntryA2 ->     \* session A again, one message
            <<ObjLine(UserRecord("A", T3, Lit("hello")))>>
      [] e = EntryB ->      \* a message whose durationMs is beyond 64 bits
            <<ObjLine([UserRecord("B", T1, Lit("hello")) EXCEPT !.durationMs = BigInt])>>
      [] e = EntryE ->      \* the only record has an empty session identifier
            <<ObjLine(UserRecord("", T2, Lit("hello")))>>
      [] e = EntryN ->      \* the first record's sessionId is null, the second's is N
            <<ObjLine(UserRecord(NULL, T1, Lit("hello"))),
              ObjLine(UserRecord("N", T2, Lit("hello")))>>
      [] e = EntryP ->      \* session P, one message and a line that is no JSON
            <<ObjLine(UserRecord("P", T1, Lit("hello"))), JunkLine>>
      [] e = EntrySub -> <<ObjLine(UserRecord("S", T1, Lit("hello")))>>
      [] e = EntryT ->      \* a title and no message
            <<ObjLine(TitleRecord)>>
      [] OTHER -> <<JunkLine>>
\* bad.json is a single-document file that is no JSON
DocOf(e) == NoDoc

\* the entries in the order sorted() gives their paths
PathOrder ==
    <<EntryA, EntryAgent, EntryA2, EntryB, EntryBad, EntryE, EntryP, EntryN, EntryNotes, EntrySub>>
EntrySamples == SeqSet(PathOrder)

AbsRoot == [rooted |-> TRUE, segs |-> <<"data">>]
\* session_dir given as "."
DotRoot == [rooted |-> FALSE, segs |-> <<>>]
RootSamples == {AbsRoot, DotRoot}

\* the Path of an entry under root, with what the file holds
FileAt(root, e) ==
    [path |-> PosixPath(root, e), name |-> JoinWith(e.tokens, ""),
     stem |-> JoinWith(SubSeq(e.tokens, 1, Len(e.tokens) - 1), ""),
     suffix |-> e.tokens[Len(e.tokens)], lines |-> LinesOf(e), doc |-> DocOf(e), size |-> 1024,
     dirs |-> e.dirs, tokens |-> e.tokens]

Limit(n) == [k |-> "int", n |-> n]
NoLimit == [k |-> "none", n |-> 0]
LimitSamples == {NoLimit} \cup {Limit(n) : n \in 0..MaxLimit}

ConvW == Conversation("W", "Chat", "list",
                      <<Turn("human", AbsentV, Lit("hi"), T1),
                        Turn("assistant", ListV(<<ThinkingBlock(Lit("T")), TextBlock(Lit("X"))>>), Lit("X"), T2)>>)
ConvV == Conversation("V", "Other", "list", <<Turn("human", AbsentV, Lit("hi"), T3)>>)
ConvBadTurn == Conversation("X", "Chat", "list", <<NonDictTurn>>)
ConvNoTurns == Conversation("Y", "Chat", "absent", <<>>)
CliConversationSamples == {ConvW, ConvV, ConvBadTurn, ConvNoTurns, NonDictConversation}

Entry(filename, file_size, json) == [filename |-> filename, file_size |-> file_size, json |-> json]
NoJson == [k |-> "invalid", items |-> <<>>]
UsersEntry == Entry(<<"export/", "users.json">>, 2048, [k |-> "list", items |-> <<>>])
ManifestSamples ==
    {Entry(<<"export/", "conversations.json">>, size, json) :
        size \in {2048, MAX_ZIP_ENTRY_BYTES, MAX_ZIP_ENTRY_BYTES + 1},
        json \in {NoJson} \cup {[k |-> "list", items |-> cs] :
                                   cs \in SeqsUpTo(CliConversationSamples, MaxConversations)}}
ArchiveSamples ==
    {[path |-> ZipFile.path, size |-> ZipFile.size, entries |-> es] :
        es \in {<<>>, <<UsersEntry>>} \cup {<<m>> : m \in ManifestSamples}
               \cup {<<UsersEntry, m>> : m \in ManifestSamples}}
NoArchive == [path |-> ZipFile.path, size |-> ZipFile.size, entries |-> <<>>]

\* the store a previous import of a.jsonl and n.jsonl under /data left
Imported(d, e) ==
    CHOOSE val \in
        {save_session(d, r.session[1], r.message_rows).db :
            r \in {process_session(file, project_from_path(e)) : file \in {FileAt(AbsRoot, e)}}} : TRUE
PriorDb ==
    CHOOSE val \in
        {ensure_db_shape(d2) : d2 \in {Imported(d1, EntryN) : d1 \in {Imported(EmptyDb, EntryA)}}} : TRUE
DbSamples == {EmptyDb, PriorDb}

Command(name, dry_run, silent, include_agents, limit, root, tree, file, project, archive) ==
    [name |-> name, dry_run |-> dry_run, silent |-> silent, include_agents |-> include_agents,
     limit |-> limit, root |-> root, tree |-> tree, file |-> file, project |-> project,
     archive |-> archive]

SessionsCommands ==
    {Command("sessions", dry_run, silent, include_agents, limit, root, tree,
             EntryA, NULL, NoArchive) :
        dry_run \in BOOLEAN, silent \in BOOLEAN, include_agents \in BOOLEAN,
        limit \in LimitSamples, root \in RootSamples,
        tree \in {t \in SUBSET EntrySamples : Cardinality(t) <= MaxFiles}}
SessionCommands ==
    {Command("session", FALSE, FALSE, FALSE, NoLimit, AbsRoot, {}, e, project, NoArchive) :
        e \in {EntryA, EntryB, EntryBad, EntryE, EntryN, EntryT}, project \in {NULL, "proj"}}
WebExportCommands ==
    {Command("web-export", FALSE, silent, FALSE, NoLimit, AbsRoot, {}, EntryA, NULL, archive) :
        silent \in BOOLEAN, archive \in ArchiveSamples}
CommandSamples == SessionsCommands \cup SessionCommands \cup WebExportCommands

(***************************************************************************)
(* State.                                                                  *)
(***************************************************************************)
VARIABLES
    \* a call of one content extractor
    raw_content,    \* the content value passed in
    ex_fn,          \* the extractor applied, "none" before the call
    ex_out          \* what it returned: [err, val, calls]

VARIABLES
    \* a call of one normalizer
    input,          \* [kind, file, conversation, project]: what it is called with
    n_pc,           \* "load", "records", "turns", "returned", "raised"; "idle"
    records,        \* the records load_session_file returned / the chat turns
    warnings,       \* the warnings load_session_file returned
    rec_i,          \* the next record (turn) of the pass, from 1
    acc,            \* the running state of the pass
    result          \* [err, session, message_rows, warnings] once returned

VARIABLES
    \* a run of one command
    cmd,            \* the command line: [name, dry_run, silent, include_agents, limit, ...]
    cli_pc,         \* "start", "loop", "done" (exited), "crashed" (uncaught exception); "idle"
    items,          \* the ordered list of files / conversations
    item_i,         \* the next item, from 1
    db,             \* the store
    db_before,      \* the store as the run found it
    session_count,
    message_count,
    errors,         \* the per-item error entries
    all_warnings,
    out,            \* what was echoed
    calls,          \* the calls of save_session and ensure_db_shape, in order
    exit_code

exvars == <<raw_content, ex_fn, ex_out>>
nvars == <<input, n_pc, records, warnings, rec_i, acc, result>>
cvars == <<cmd, cli_pc, items, item_i, db, db_before, session_count, message_count, errors,
           all_warnings, out, calls, exit_code>>

vars == <<exvars, nvars, cvars>>

NoInput == [kind |-> "none", file |-> JsonlFile(<<>>), conversation |-> NonDictConversation, project |-> NULL]
NIdle ==
    /\ input = NoInput
    /\ n_pc = "idle"
    /\ records = <<>>
    /\ warnings = <<>>
    /\ rec_i = 0
    /\ acc = InitAcc
    /\ result = NoOutput(<<>>)

NoCommand == Command("none", FALSE, FALSE, FALSE, NoLimit, AbsRoot, {}, EntryA, NULL, NoArchive)
CIdle ==
    /\ cmd = NoCommand
    /\ cli_pc = "idle"
    /\ items = <<>>
    /\ item_i = 0
    /\ db = EmptyDb
    /\ db_before = EmptyDb
    /\ session_count = 0
    /\ message_count = 0
    /\ errors = <<>>
    /\ all_warnings = <<>>
    /\ out = <<>>
    /\ calls = <<>>
    /\ exit_code = 0

ExIdle == raw_content = NullV /\ ex_fn = "idle" /\ ex_out = [err |-> FALSE, val |-> NullV, calls |-> <<>>]

(***************************************************************************)
(* The content extractors applied to one content value.                    *)
(***************************************************************************)
ExInit ==
    /\ raw_content \in ContentSamples
    /\ ex_fn = "none"
    /\ ex_out = [err |-> FALSE, val |-> NullV, calls |-> <<>>]
    /\ NIdle
    /\ CIdle

Returned(fn, r) ==
    /\ ex_fn = "none"
    /\ ex_fn' = fn
    /\ ex_out' = [err |-> r.err, val |-> r.val, calls |-> <<>>]
    /\ UNCHANGED <<raw_content, nvars, cvars>>

CallExtractText == Returned("extract_text", extract_text(raw_content))

CallExtractThinking == Returned("extract_thinking", extract_thinking(raw_content))

CallExtractToolCalls ==
    /\ ex_fn = "none"
    /\ ex_fn' = "extract_tool_calls"
    /\ ex_out' = [err |-> FALSE, val |-> NullV, calls |-> extract_tool_calls(raw_content)]
    /\ UNCHANGED <<raw_content, nvars, cvars>>

CallReplaceBase64 == Returned("replace_base64_content", replace_base64_content(raw_content))

ExNext ==
    \/ CallExtractText
    \/ CallExtractThinking
    \/ CallExtractToolCalls
    \/ CallReplaceBase64

SpecExtract == ExInit /\ [][ExNext]_vars

(***************************************************************************)
(* One call of a normalizer: process_session on a file, one record per     *)
(* step, or process_web_conversation on a conversation, one turn per step. *)
(***************************************************************************)
NInit ==
    /\ input \in {[kind |-> "file", file |-> f, conversation |-> NonDictConversation, project |-> "/test"] :
                    f \in FileSamples}
          \cup {[kind |-> "conversation", file |-> JsonlFile(<<>>), conversation |-> c, project |-> NULL] :
                    c \in ConversationSamples}
    /\ n_pc = "call"
    /\ records = <<>>
    /\ warnings = <<>>
    /\ rec_i = 0
    /\ acc = InitAcc
    /\ result = NoOutput(<<>>)
    /\ ExIdle
    /\ CIdle

Return(r) ==
    /\ result' = r
    /\ n_pc' = IF r.err THEN "raised" ELSE "returned"

\* lines 233-249: load the file; no records, no session
LoadFile ==
    /\ n_pc = "call" /\ input.kind = "file"
    /\ LET loaded == load_session_file(input.file)
       IN  IF loaded.err
           THEN Return(Raised) /\ UNCHANGED <<records, warnings, rec_i, acc>>
           ELSE IF loaded.records = <<>>
           THEN /\ Return(NoOutput(loaded.warnings))
                /\ warnings' = loaded.warnings
                /\ UNCHANGED <<records, rec_i, acc>>
           ELSE /\ records' = loaded.records
                /\ warnings' = loaded.warnings
                /\ rec_i' = 1
                /\ acc' = InitAcc
                /\ n_pc' = "records"
                /\ UNCHANGED result
    /\ UNCHANGED <<input, exvars, cvars>>

\* lines 252-341: one record of the pass
ProcessRecord ==
    /\ n_pc = "records" /\ rec_i <= Len(records)
    /\ LET r == process_record(acc, records[rec_i], input.file.stem)
       IN  IF r.err
           THEN Return(Raised) /\ UNCHANGED <<rec_i, acc>>
           ELSE acc' = r.acc /\ rec_i' = rec_i + 1 /\ UNCHANGED <<n_pc, result>>
    /\ UNCHANGED <<input, records, warnings, exvars, cvars>>

\* lines 343-368: the pass is over
FinishSession ==
    /\ n_pc = "records" /\ rec_i > Len(records)
    /\ Return(finish_session(acc, input.file, input.project, warnings))
    /\ UNCHANGED <<input, records, warnings, rec_i, acc, exvars, cvars>>

\* lines 405-416: read the conversation; no chat turns, no session
StartConversation ==
    /\ n_pc = "call" /\ input.kind = "conversation"
    /\ LET conversation == input.conversation
           chat == conversation.chat_messages
       IN  IF ~conversation.isdict
           THEN Return(Raised) /\ UNCHANGED <<records, rec_i, acc>>
           ELSE IF chat.k # "list" \/ chat.items = <<>>
           THEN Return(NoOutput(<<>>)) /\ UNCHANGED <<records, rec_i, acc>>
           ELSE /\ records' = chat.items
                /\ rec_i' = 1
                /\ acc' = [InitAcc EXCEPT !.session_id = Get(conversation.uuid, ""), !.source = "web"]
                /\ n_pc' = "turns"
                /\ UNCHANGED result
    /\ UNCHANGED <<input, warnings, exvars, cvars>>

\* lines 418-459: one chat turn
ProcessTurn ==
    /\ n_pc = "turns" /\ rec_i <= Len(records)
    /\ LET r == web_message_row(acc.session_id, rec_i - 1, records[rec_i])
       IN  IF r.err
           THEN Return(Raised) /\ UNCHANGED <<rec_i, acc>>
           ELSE /\ acc' = [acc EXCEPT !.message_rows = @ \o r.row, !.msg_index = rec_i]
                /\ rec_i' = rec_i + 1
                /\ UNCHANGED <<n_pc, result>>
    /\ UNCHANGED <<input, records, warnings, exvars, cvars>>

\* lines 461-483
FinishConversation ==
    /\ n_pc = "turns" /\ rec_i > Len(records)
    /\ LET sr == web_session_row(input.conversation, acc.message_rows, ZipFile)
       IN  Return(IF sr.err THEN Raised
                  ELSE [err |-> FALSE, session |-> sr.row, message_rows |-> acc.message_rows,
                        warnings |-> <<>>])
    /\ UNCHANGED <<input, records, warnings, rec_i, acc, exvars, cvars>>

NNext ==
    \/ LoadFile
    \/ ProcessRecord
    \/ FinishSession
    \/ StartConversation
    \/ ProcessTurn
    \/ FinishConversation

SpecNorm == NInit /\ [][NNext]_vars

(***************************************************************************)
(* One run of a command: sessions, session or web-export.                  *)
(***************************************************************************)
Init ==
    /\ cmd \in CommandSamples
    /\ cli_pc = "start"
    /\ items = <<>>
    /\ item_i = 0
    /\ db_before \in DbSamples
    /\ db = db_before
    /\ session_count = 0
    /\ message_count = 0
    /\ errors = <<>>
    /\ all_warnings = <<>>
    /\ out = <<>>
    /\ calls = <<>>
    /\ exit_code = 0
    /\ ExIdle
    /\ NIdle

\* collect_session_files: the *.jsonl and *.json files of the tree, sorted, less
\* the ones should_skip_file names
\* the members of set in the order sorted() gives them, from the i-th path on
RECURSIVE Sorted(_, _)
Sorted(set, i) ==
    IF i > Len(PathOrder) THEN <<>>
    ELSE (IF PathOrder[i] \in set THEN <<PathOrder[i]>> ELSE <<>>) \o Sorted(set, i + 1)

collect_session_files(root, tree, include_agents) ==
    LET globbed == {e \in tree : e.tokens[Len(e.tokens)] \in {".jsonl", ".json"}}
    IN  Sorted({e \in globbed : ~should_skip_file(root, e, include_agents)}, 1)

\* files[:limit]
Sliced(files, limit) ==
    IF limit.k = "none" \/ limit.n >= Len(files) THEN files ELSE SubSeq(files, 1, limit.n)

SaveCall(session_row) == [fn |-> "save_session", session_id |-> session_row.session_id]
ShapeCall == [fn |-> "ensure_db_shape", session_id |-> NULL]

\* a call of save_session, noted in calls; [err, db, calls]
save_logged(d, session_row, message_rows) ==
    CHOOSE val \in
        {[err |-> saved.err, db |-> saved.db, calls |-> <<SaveCall(session_row)>>] :
            saved \in {save_session(d, session_row, message_rows)}} : TRUE

\* save_unless_dry_run saving whatever the dry-run option says
save_regardless(dry_run, d, session_row, message_rows) ==
    save_logged(d, session_row, message_rows)

\* cli.py lines 80-81 and 99-100; [err, db, calls]
save_unless_dry_run(dry_run, d, session_row, message_rows) ==
    IF dry_run THEN [err |-> FALSE, db |-> d, calls |-> <<>>]
    ELSE save_logged(d, session_row, message_rows)

\* cli.py lines 94-104: the try block of one file of the progress loop of
\* sessions; [err, db, sessions, messages, warnings, calls]
import_file(dry_run, d, root, path) ==
    CHOOSE val \in
        {IF r.err
         THEN [err |-> TRUE, db |-> d, sessions |-> 0, messages |-> 0, warnings |-> <<>>, calls |-> <<>>]
         ELSE IF r.session = <<>>
         THEN [err |-> FALSE, db |-> d, sessions |-> 0, messages |-> 0, warnings |-> r.warnings,
               calls |-> <<>>]
         ELSE CHOOSE o \in
                  {IF saved.err
                   THEN [err |-> TRUE, db |-> saved.db, sessions |-> 0, messages |-> 0,
                         warnings |-> r.warnings, calls |-> saved.calls]
                   ELSE [err |-> FALSE, db |-> saved.db, sessions |-> 1,
                         messages |-> Len(r.message_rows), warnings |-> r.warnings,
                         calls |-> saved.calls] :
                      saved \in {save_unless_dry_run(dry_run, d, r.session[1], r.message_rows)}} : TRUE :
            r \in {process_session(file, project_from_path(file)) : file \in {FileAt(root, path)}}} : TRUE

\* import_file_silent counting a session whose save raised
import_file_silent_counting_failed(dry_run, d, root, path) ==
    CHOOSE val \in
        {IF r.err
         THEN [err |-> TRUE, db |-> d, sessions |-> 0, messages |-> 0, warnings |-> <<>>, calls |-> <<>>]
         ELSE IF r.session = <<>>
         THEN [err |-> FALSE, db |-> d, sessions |-> 0, messages |-> 0, warnings |-> <<>>, calls |-> <<>>]
         ELSE CHOOSE o \in
                  {[err |-> saved.err, db |-> saved.db, sessions |-> 1,
                    messages |-> Len(r.message_rows), warnings |-> <<>>, calls |-> saved.calls] :
                      saved \in {save_unless_dry_run(dry_run, d, r.session[1], r.message_rows)}} : TRUE :
            r \in {process_session(file, project_from_path(file)) : file \in {FileAt(root, path)}}} : TRUE

\* cli.py lines 76-85: the try block of one file of the silent loop of sessions;
\* the warnings of process_session are dropped
import_file_silent(dry_run, d, root, path) ==
    CHOOSE val \in
        {IF r.err
         THEN [err |-> TRUE, db |-> d, sessions |-> 0, messages |-> 0, warnings |-> <<>>, calls |-> <<>>]
         ELSE IF r.session = <<>>
         THEN [err |-> FALSE, db |-> d, sessions |-> 0, messages |-> 0, warnings |-> <<>>, calls |-> <<>>]
         ELSE CHOOSE o \in
                  {IF saved.err
                   THEN [err |-> TRUE, db |-> saved.db, sessions |-> 0, messages |-> 0,
                         warnings |-> <<>>, calls |-> saved.calls]
                   ELSE [err |-> FALSE, db |-> saved.db, sessions |-> 1,
                         messages |-> Len(r.message_rows), warnings |-> <<>>, calls |-> saved.calls] :
                      saved \in {save_unless_dry_run(dry_run, d, r.session[1], r.message_rows)}} : TRUE :
            r \in {process_session(file, project_from_path(file)) : file \in {FileAt(root, path)}}} : TRUE

\* cli.py lines 172-181: the try block of one conversation of the silent loop
\* of web-export
import_conversation_silent(d, conv, zip) ==
    CHOOSE val \in
        {IF r.err
         THEN [err |-> TRUE, db |-> d, sessions |-> 0, messages |-> 0, warnings |-> <<>>, calls |-> <<>>]
         ELSE IF r.session = <<>>
         THEN [err |-> FALSE, db |-> d, sessions |-> 0, messages |-> 0, warnings |-> <<>>, calls |-> <<>>]
         ELSE CHOOSE o \in
                  {IF saved.err
                   THEN [err |-> TRUE, db |-> saved.db, sessions |-> 0, messages |-> 0,
                         warnings |-> <<>>, calls |-> saved.calls]
                   ELSE [err |-> FALSE, db |-> saved.db, sessions |-> 1,
                         messages |-> Len(r.message_rows), warnings |-> <<>>, calls |-> saved.calls] :
                      saved \in {save_logged(d, r.session[1], r.message_rows)}} : TRUE :
            r \in {process_web_conversation(conv, zip)}} : TRUE

\* cli.py lines 189-198: the try block of one conversation of the progress loop
\* of web-export
import_conversation(d, conv, zip) ==
    CHOOSE val \in
        {IF r.err
         THEN [err |-> TRUE, db |-> d, sessions |-> 0, messages |-> 0, warnings |-> <<>>, calls |-> <<>>]
         ELSE IF r.session = <<>>
         THEN [err |-> FALSE, db |-> d, sessions |-> 0, messages |-> 0, warnings |-> <<>>, calls |-> <<>>]
         ELSE CHOOSE o \in
                  {IF saved.err
                   THEN [err |-> TRUE, db |-> saved.db, sessions |-> 0, messages |-> 0,
                         warnings |-> <<>>, calls |-> saved.calls]
                   ELSE [err |-> FALSE, db |-> saved.db, sessions |-> 1,
                         messages |-> Len(r.message_rows), warnings |-> <<>>, calls |-> saved.calls] :
                      saved \in {save_logged(d, r.session[1], r.message_rows)}} : TRUE :
            r \in {process_web_conversation(conv, zip)}} : TRUE

Exit(code) ==
    /\ cli_pc' = "done"
    /\ exit_code' = code

\* an exception no handler catches ends the run with a traceback
Crash ==
    /\ cli_pc' = "crashed"
    /\ exit_code' = 1

\* cli.py lines 58-72
StartSessions ==
    /\ cli_pc = "start" /\ cmd.name = "sessions"
    /\ LET kept == collect_session_files(cmd.root, cmd.tree, cmd.include_agents)
           files == Sliced(kept, cmd.limit)
       IN  IF files = <<>>
           THEN Exit(1) /\ UNCHANGED <<items, item_i>>
           ELSE /\ items' = files
                /\ item_i' = 1
                /\ cli_pc' = "loop"
                /\ UNCHANGED exit_code
    /\ UNCHANGED <<cmd, db, db_before, session_count, message_count, errors, all_warnings, out,
                   calls, exvars, nvars>>

\* cli.py lines 75-85
ImportFileSilent ==
    /\ cli_pc = "loop" /\ cmd.name = "sessions" /\ cmd.silent
    /\ item_i <= Len(items)
    /\ \E r \in {import_file_silent(cmd.dry_run, db, cmd.root, items[item_i])} :
           /\ db' = r.db
           /\ calls' = calls \o r.calls
           /\ session_count' = session_count + r.sessions
           /\ message_count' = message_count + r.messages
           /\ errors' = IF r.err THEN Append(errors, [item |-> PosixPath(cmd.root, items[item_i])]) ELSE errors
    /\ item_i' = item_i + 1
    /\ UNCHANGED <<cmd, cli_pc, items, db_before, all_warnings, out, exit_code, exvars, nvars>>

\* cli.py lines 93-104
ImportFileProgress ==
    /\ cli_pc = "loop" /\ cmd.name = "sessions" /\ ~cmd.silent
    /\ item_i <= Len(items)
    /\ \E r \in {import_file(cmd.dry_run, db, cmd.root, items[item_i])} :
           /\ db' = r.db
           /\ calls' = calls \o r.calls
           /\ all_warnings' = all_warnings \o r.warnings
           /\ session_count' = session_count + r.sessions
           /\ message_count' = message_count + r.messages
           /\ errors' = IF r.err THEN Append(errors, [item |-> PosixPath(cmd.root, items[item_i])]) ELSE errors
    /\ item_i' = item_i + 1
    /\ UNCHANGED <<cmd, cli_pc, items, db_before, out, exit_code, exvars, nvars>>

Summary == [stream |-> "stdout", sessions |-> session_count, messages |-> message_count]

\* cli.py lines 105-118
FinishSessions ==
    /\ cli_pc = "loop" /\ cmd.name = "sessions"
    /\ item_i > Len(items)
    /\ db' = IF cmd.dry_run THEN db ELSE ensure_db_shape(db)
    /\ calls' = IF cmd.dry_run THEN calls ELSE Append(calls, ShapeCall)
    /\ out' = IF cmd.silent THEN out
              ELSE out \o [i \in 1..Len(all_warnings) |->
                              [stream |-> "stderr", warning |-> all_warnings[i]]]
                       \o <<Summary>>
    /\ Exit(IF errors # <<>> THEN 1 ELSE 0)
    /\ UNCHANGED <<cmd, items, item_i, db_before, session_count, message_count, errors,
                   all_warnings, exvars, nvars>>

\* cli.py lines 128-145: the session command
RunSession ==
    /\ cli_pc = "start" /\ cmd.name = "session"
    /\ \E file \in {FileAt(cmd.root, cmd.file)} : \E r \in {process_session(file, cmd.project)} :
       LET saved == save_session(db, r.session[1], r.message_rows)
           echoed == [i \in 1..Len(r.warnings) |-> [stream |-> "stderr", warning |-> r.warnings[i]]]
       IN  IF r.err
           THEN Crash /\ UNCHANGED <<db, calls, out, session_count, message_count>>
           ELSE IF r.session = <<>>
           THEN Exit(1) /\ out' = echoed /\ UNCHANGED <<db, calls, session_count, message_count>>
           ELSE IF saved.err
           THEN /\ Crash
                /\ out' = echoed
                /\ db' = saved.db
                /\ calls' = <<SaveCall(r.session[1])>>
                /\ UNCHANGED <<session_count, message_count>>
           ELSE /\ Exit(0)
                /\ db' = ensure_db_shape(saved.db)
                /\ calls' = <<SaveCall(r.session[1]), ShapeCall>>
                /\ session_count' = 1
                /\ message_count' = Len(r.message_rows)
                /\ out' = Append(echoed, [stream |-> "stdout", sessions |-> 1,
                                          messages |-> Len(r.message_rows)])
    /\ UNCHANGED <<cmd, items, item_i, db_before, errors, all_warnings, exvars, nvars>>

\* cli.py lines 161-168
StartWebExport ==
    /\ cli_pc = "start" /\ cmd.name = "web-export"
    /\ LET loaded == load_web_export(cmd.archive)
       IN  IF loaded.err
           THEN Crash /\ UNCHANGED <<items, item_i>>
           ELSE IF loaded.conversations = <<>>
           THEN Exit(1) /\ UNCHANGED <<items, item_i>>
           ELSE /\ items' = loaded.conversations
                /\ item_i' = 1
                /\ cli_pc' = "loop"
                /\ UNCHANGED exit_code
    /\ UNCHANGED <<cmd, db, db_before, session_count, message_count, errors, all_warnings, out,
                   calls, exvars, nvars>>

\* the outcome r of the try block of one conversation taken over by the loop;
\* the handler's conv.get raises for a conversation that is no dict, and nothing
\* catches that
ImportConversation(r) ==
    LET conv == items[item_i]
    IN  /\ db' = r.db
        /\ calls' = calls \o r.calls
        /\ session_count' = session_count + r.sessions
        /\ message_count' = message_count + r.messages
        /\ IF r.err /\ ~conv.isdict
           THEN Crash /\ UNCHANGED <<errors, item_i>>
           ELSE /\ errors' = IF r.err THEN Append(errors, [item |-> Get(conv.uuid, "?")]) ELSE errors
                /\ item_i' = item_i + 1
                /\ UNCHANGED <<cli_pc, exit_code>>
        /\ UNCHANGED <<cmd, items, db_before, all_warnings, out, exvars, nvars>>

\* cli.py lines 171-181
ImportConversationSilent ==
    /\ cli_pc = "loop" /\ cmd.name = "web-export" /\ cmd.silent
    /\ item_i <= Len(items)
    /\ \E r \in {import_conversation_silent(db, items[item_i], cmd.archive)} : ImportConversation(r)

\* cli.py lines 188-198
ImportConversationProgress ==
    /\ cli_pc = "loop" /\ cmd.name = "web-export" /\ ~cmd.silent
    /\ item_i <= Len(items)
    /\ \E r \in {import_conversation(db, items[item_i], cmd.archive)} : ImportConversation(r)

\* cli.py lines 200-208
FinishWebExport ==
    /\ cli_pc = "loop" /\ cmd.name = "web-export"
    /\ item_i > Len(items)
    /\ db' = ensure_db_shape(db)
    /\ calls' = Append(calls, ShapeCall)
    /\ out' = IF cmd.silent THEN out ELSE Append(out, Summary)
    /\ Exit(IF errors # <<>> THEN 1 ELSE 0)
    /\ UNCHANGED <<cmd, items, item_i, db_before, session_count, message_count, errors,
                   all_warnings, exvars, nvars>>

Next ==
    \/ StartSessions
    \/ ImportFileSilent
    \/ ImportFileProgress
    \/ FinishSessions
    \/ RunSession
    \/ StartWebExport
    \/ ImportConversationSilent
    \/ ImportConversationProgress
    \/ FinishWebExport

Spec == Init /\ [][Next]_vars

(***************************************************************************)
(* Properties of the normalizers (checked under SpecNorm).                 *)
(***************************************************************************)
Rows == result.message_rows
HasSession == n_pc = "returned" /\ result.session # <<>>
SessionRow == result.session[1]

\* the records of the pass that are none of the four skipped kinds, in order
RECURSIVE Conversational(_, _)
Conversational(recs, i) ==
    IF i > Len(recs) THEN <<>>
    ELSE (IF recs[i].isdict
             /\ ~(recs[i].type = "metadata" /\ recs[i].source = "browser_export")
             /\ recs[i].type \notin {"summary", "custom-title", "file-history-snapshot"}
          THEN <<recs[i]>> ELSE <<>>) \o Conversational(recs, i + 1)

CountType(recs, types) == Cardinality({i \in 1..Len(recs) : recs[i].isdict /\ recs[i].type \in types})

\* C1: in every session a normalizer returns, the message rows carry the indexes
\* 0..N-1 in order, and row i comes from the i-th record (turn) that is not of a
\* skipped kind, whatever skipped records lie in between.
C1_MessageIndexContiguous ==
    HasSession =>
        /\ \A i \in 1..Len(Rows) : Rows[i].message_index = i - 1
        /\ input.kind = "file" =>
              LET src == Conversational(records, 1)
              IN  /\ Len(Rows) = Len(src)
                  /\ \A i \in 1..Len(Rows) :
                        /\ Rows[i].record_type = GetN(src[i].type)
                        /\ Rows[i].timestamp = GetN(src[i].timestamp)
        /\ input.kind = "conversation" =>
              /\ Len(Rows) = Len(records)
              /\ \A i \in 1..Len(Rows) : Rows[i].timestamp = GetN(records[i].created_at)

\* C1 witness: a returned session of two rows with a skipped record between the
\* two records that produced them.
C1_Witness ==
    /\ HasSession /\ input.kind = "file"
    /\ Len(Rows) = 2 /\ Len(records) = 3
    /\ records[2].type \in {"summary", "custom-title", "file-history-snapshot", "metadata"}
    /\ Rows[2].message_index = 1

\* what process_session was given, counting an unrecoverable line as a record
InputRecordCount == Len(records) + Len(warnings)
UnrecoverableLines == Len(warnings)

\* C2 as stated: the rows are the input records minus the records of type metadata,
\* summary, custom-title and file-history-snapshot, minus the unrecoverable lines.
C2_RowsAreRecordsMinusTypes ==
    (n_pc = "returned" /\ input.kind = "file") =>
        Len(Rows) = InputRecordCount
                    - CountType(records, {"metadata", "summary", "custom-title", "file-history-snapshot"})
                    - UnrecoverableLines

\* C2 amended: when process_session returns a session row, the rows are the loaded
\* records minus the browser-export metadata records (type metadata with the
\* browser_export source marker), the summary, custom-title and
\* file-history-snapshot records; unrecoverable lines load no record; a discarded
\* session has no rows.
C2_RowsAreRecordsMinusSkipped ==
    (n_pc = "returned" /\ input.kind = "file") =>
        IF result.session # <<>>
        THEN Len(Rows) = Len(records)
                         - Cardinality({i \in 1..Len(records) :
                                           records[i].type = "metadata" /\ records[i].source = "browser_export"})
                         - CountType(records, {"summary", "custom-title", "file-history-snapshot"})
        ELSE Rows = <<>>

\* C2 witness: a session with at least one row returned from a file with an
\* unrecoverable line and a metadata record without the browser marker.
C2_Witness ==
    /\ HasSession /\ input.kind = "file"
    /\ Len(warnings) = 1
    /\ \E i \in 1..Len(records) : records[i].type = "metadata" /\ records[i].source = ABSENT
    /\ Len(Rows) >= 1

\* C4: a session row a normalizer returns has a non-empty session_id; without an
\* identifier there is no session row and there are no message rows.
C4_SessionIdNonEmpty ==
    /\ HasSession => Truthy(SessionRow.session_id)
    /\ (n_pc = "returned" /\ result.session = <<>>) => Rows = <<>>

\* the first non-empty identifier the records supply, in order: a browser-export
\* metadata record's original_uuid or a record's sessionId; none gives ABSENT
RECURSIVE FirstIdentifier(_, _)
FirstIdentifier(recs, i) ==
    IF i > Len(recs) THEN ABSENT
    ELSE LET id == IF recs[i].type = "metadata" /\ recs[i].source = "browser_export"
                   THEN recs[i].original_uuid ELSE recs[i].sessionId
         IN  IF Truthy(id) THEN id ELSE FirstIdentifier(recs, i + 1)

\* C5: the session id process_session returns is the first non-empty identifier
\* the records supply, and the file's base name only when no record supplies one.
C5_FirstIdentifierWins ==
    (HasSession /\ input.kind = "file") =>
        SessionRow.session_id = Get(FirstIdentifier(records, 1), input.file.stem)

(***************************************************************************)
(* Properties of the content extractors (checked under SpecExtract).       *)
(***************************************************************************)
\* C10: whatever the content value, an extractor that has been called has returned
\* a result and not raised.
C10_ExtractorsNeverFail ==
    ex_fn \in {"extract_text", "extract_thinking", "extract_tool_calls", "replace_base64_content"}
        => ~ex_out.err

(***************************************************************************)
(* Properties of the commands and the store (checked under Spec).          *)
(***************************************************************************)
Batch == cmd.name \in {"sessions", "web-export"}

\* what the normalizer makes of the i-th item of the batch
ItemResult(i) ==
    IF cmd.name = "sessions"
    THEN process_session(FileAt(cmd.root, items[i]), project_from_path(items[i]))
    ELSE process_web_conversation(items[i], cmd.archive)

\* the i-th item raises, in the normalizer or in the store
ItemFails(i) ==
    \/ ItemResult(i).err
    \/ /\ ItemResult(i).session # <<>>
       /\ ~cmd.dry_run
       /\ \E j \in 1..Len(ItemResult(i).message_rows) : ~Storable(ItemResult(i).message_rows[j])

ItemCounts(i) == ~ItemFails(i) /\ ItemResult(i).session # <<>>

RECURSIVE CountedMessages(_)
CountedMessages(n) ==
    IF n = 0 THEN 0
    ELSE CountedMessages(n - 1) + (IF ItemCounts(n) THEN Len(ItemResult(n).message_rows) ELSE 0)

HasSessionRow(sid) == \E k \in 1..Len(db.sessions) : db.sessions[k].session_id = sid
HasMessageRow(row) ==
    \E k \in 1..Len(db.messages) :
        /\ db.messages[k].session_id = row.session_id
        /\ db.messages[k].message_index = row.message_index

\* C3: the store never holds two session rows with one session_id, nor two message
\* rows with one (session_id, message_index); and importing again a file the store
\* already holds leaves the number of session rows and of message rows as it was.
C3_IdempotentUpsert ==
    /\ \A i, j \in 1..Len(db.sessions) :
          db.sessions[i].session_id = db.sessions[j].session_id => i = j
    /\ \A i, j \in 1..Len(db.messages) :
          (/\ db.messages[i].session_id = db.messages[j].session_id
           /\ db.messages[i].message_index = db.messages[j].message_index) => i = j
    /\ (/\ cmd.name = "session" /\ cli_pc = "done" /\ exit_code = 0
        /\ cmd.file \in {EntryA, EntryN} /\ db_before = PriorDb)
          => /\ Len(db.sessions) = Len(db_before.sessions)
             /\ Len(db.messages) = Len(db_before.messages)

\* C6: once a batch import into an empty store has ended, every item the normalizer
\* made a session of has its session row and all its message rows in the store, or
\* none of them.
C6_ItemNeverHalfApplied ==
    (Batch /\ cli_pc = "done" /\ ~cmd.dry_run /\ db_before = EmptyDb) =>
        \A i \in 1..Len(items) :
            (~ItemResult(i).err /\ ItemResult(i).session # <<>>) =>
                LET sid == ItemResult(i).session[1].session_id
                    rows == ItemResult(i).message_rows
                IN  \/ HasSessionRow(sid) /\ \A j \in 1..Len(rows) : HasMessageRow(rows[j])
                    \/ ~HasSessionRow(sid) /\ \A j \in 1..Len(rows) : ~HasMessageRow(rows[j])

\* C7: in a batch command no item's exception ends the run; each item that raised
\* has left one error entry and nothing in the counters, the others are counted;
\* the run goes through every item and exits non-zero when an item failed.
C7_ItemFailureIsolated ==
    (Batch /\ items # <<>>) =>
        /\ cli_pc # "crashed"
        /\ Len(errors) = Cardinality({i \in 1..(item_i - 1) : ItemFails(i)})
        /\ session_count = Cardinality({i \in 1..(item_i - 1) : ItemCounts(i)})
        /\ message_count = CountedMessages(item_i - 1)
        /\ cli_pc = "done" =>
              /\ item_i = Len(items) + 1
              /\ (exit_code # 0) <=> (\E i \in 1..Len(items) : ItemFails(i))

ManifestIndex == FirstManifest(cmd.archive.entries, 1)
\* no entry named conversations.json, or the first one is over 500 MB
UnusableArchive ==
    /\ cmd.name = "web-export"
    /\ \/ ManifestIndex = 0
       \/ cmd.archive.entries[ManifestIndex].file_size > 500 * 1024 * 1024

\* C8: a web-export run on an archive without a manifest entry, or with a manifest
\* entry over 500 MB, ends with an error at the start: it never reaches an item,
\* calls neither save_session nor ensure_db_shape, and leaves the store as it was.
C8_FatalArchiveWritesNothing ==
    UnusableArchive =>
        /\ cli_pc \in {"start", "crashed"}
        /\ cli_pc = "crashed" => exit_code # 0
        /\ items = <<>>
        /\ calls = <<>>
        /\ db = db_before

\* C8 witness: the run has ended on an archive whose manifest entry is over the
\* ceiling and holds conversations that would otherwise have been imported.
C8_Witness ==
    /\ UnusableArchive /\ cli_pc = "crashed"
    /\ ManifestIndex # 0
    /\ cmd.archive.entries[ManifestIndex].json.items = <<ConvW, ConvV>>
    /\ db = PriorDb

\* C9: in a dry run of the sessions command the store stays as the run found it and
\* neither save_session nor ensure_db_shape is called, in every state of the run;
\* the counters count the sessions normalized so far and their messages.
C9_DryRunLeavesStore ==
    (cmd.name = "sessions" /\ cmd.dry_run) =>
        /\ db = db_before
        /\ calls = <<>>
        /\ items # <<>> =>
              /\ session_count =
                    Cardinality({i \in 1..(item_i - 1) :
                                    ~ItemResult(i).err /\ ItemResult(i).session # <<>>})
              /\ message_count = CountedMessages(item_i - 1)

\* C9 witness: a dry run over a.jsonl and a2.jsonl has ended with two sessions and
\* three messages counted.
C9_Witness ==
    /\ cmd.name = "sessions" /\ cmd.dry_run /\ cli_pc = "done"
    /\ cmd.tree = {EntryA, EntryA2}
    /\ session_count = 2 /\ message_count = 3
    /\ db = db_before


(***************************************************************************)
(* The content extractors on block lists and plain strings.                *)
(***************************************************************************)
IsThinkingBlock(b) == b.isdict /\ b.type = "thinking"
IsTextBlock(b) == b.isdict /\ b.type = "text"

RECURSIVE WithoutThinking(_, _)
WithoutThinking(blocks, i) ==
    IF i > Len(blocks) THEN <<>>
    ELSE (IF IsThinkingBlock(blocks[i]) THEN <<>> ELSE <<blocks[i]>>) \o WithoutThinking(blocks, i + 1)

RECURSIVE TextsOf(_, _)
TextsOf(blocks, i) ==
    IF i > Len(blocks) THEN <<>>
    ELSE (IF IsTextBlock(blocks[i]) THEN <<blocks[i].text>> ELSE <<>>) \o TextsOf(blocks, i + 1)

RECURSIVE ThinkingsOf(_, _)
ThinkingsOf(blocks, i) ==
    IF i > Len(blocks) THEN <<>>
    ELSE (IF IsThinkingBlock(blocks[i]) /\ blocks[i].thinking # EmptyV THEN <<blocks[i].thinking>> ELSE <<>>)
         \o ThinkingsOf(blocks, i + 1)

\* a list of text and thinking blocks whose text and thinking are strings
PlainBlocks(blocks) ==
    \A i \in 1..Len(blocks) :
        \/ IsTextBlock(blocks[i]) /\ blocks[i].text.k = "str"
        \/ IsThinkingBlock(blocks[i]) /\ blocks[i].thinking.k = "str"

\* C11: reasoning never mixes with visible content.  On every block list
\* extract_text returns what it returns on the list without its thinking blocks;
\* on a list of text and thinking blocks it returns the text blocks' text joined
\* in order and extract_thinking returns the thinking blocks' text; on
\* [thinking "T", text "X"] extract_thinking returns "T" and extract_text "X".
C11_ThinkingApartFromText ==
    raw_content.k = "list" =>
        LET blocks == raw_content.items
            visible == extract_text(ListV(WithoutThinking(blocks, 1)))
        IN  /\ ex_fn = "extract_text" =>
                /\ ex_out.err = visible.err
                /\ ex_out.val = visible.val
                /\ PlainBlocks(blocks) => ~ex_out.err /\ ex_out.val = JoinFrom(TextsOf(blocks, 1), 1)
            /\ (ex_fn = "extract_thinking" /\ PlainBlocks(blocks)) =>
                /\ ~ex_out.err
                /\ ex_out.val = IF ThinkingsOf(blocks, 1) = <<>> THEN NullV
                                ELSE JoinFrom(ThinkingsOf(blocks, 1), 1)
            /\ blocks = <<ThinkingBlock(Lit("T")), TextBlock(Lit("X"))>> =>
                /\ ex_fn = "extract_text" => ex_out.val = Lit("X")
                /\ ex_fn = "extract_thinking" => ex_out.val = Lit("T")

\* C11 witness: extract_text has returned "X" for [thinking "T", text "X"].
C11_Witness ==
    /\ raw_content = ListV(<<ThinkingBlock(Lit("T")), TextBlock(Lit("X"))>>)
    /\ ex_fn = "extract_text"
    /\ ex_out.val = Lit("X")

\* C12: extract_thinking returns null exactly when the content is no list or the
\* list holds no thinking-typed block; with a thinking-typed block it returns
\* the joined text of these blocks, the empty string when that text is empty.
C12_NullOnlyWithoutThinkingBlock ==
    (ex_fn = "extract_thinking" /\ ~ex_out.err) =>
        /\ ex_out.val = NullV <=>
              \/ raw_content.k # "list"
              \/ \A i \in 1..Len(raw_content.items) : ~IsThinkingBlock(raw_content.items[i])
        /\ (raw_content.k = "list" /\ PlainBlocks(raw_content.items)
            /\ \E i \in 1..Len(raw_content.items) : IsThinkingBlock(raw_content.items[i])) =>
              ex_out.val = JoinFrom(ThinkingsOf(raw_content.items, 1), 1)

\* C19: replace_base64_content on a plain string returns the placeholder
\* "[base64 content, ~<N>KB decoded]", N the decoded size in KB, exactly when
\* "base64" lies within the first 500 characters and the string is longer than
\* 1000 characters; every other string is returned unchanged.
C19_PlaceholderForBase64String ==
    (ex_fn = "replace_base64_content" /\ raw_content.k = "str") =>
        /\ ~ex_out.err
        /\ IF raw_content.b64 >= 0 /\ raw_content.b64 + 6 <= 500 /\ raw_content.len > 1000
           THEN /\ ex_out.val.id = "[base64 content, ~"
                                   \o ToString(RoundHalfEven(raw_content.len * 3, 4 * 1024))
                                   \o "KB decoded]"
                /\ ex_out.val # raw_content
           ELSE ex_out.val = raw_content

\* C19 witness: the placeholder returned for a string whose "base64" ends at
\* character 500.
C19_Witness ==
    /\ ex_fn = "replace_base64_content"
    /\ raw_content = EdgeBase64
    /\ ex_out.val.id = "[base64 content, ~1KB decoded]"


(***************************************************************************)
(* The message rows of a normalizer call.                                  *)
(***************************************************************************)
\* the number of characters a text column holds: those of a string, those of the
\* strings of a list
RECURSIVE ItemChars(_, _)
ItemChars(elems, i) ==
    IF i > Len(elems) THEN 0
    ELSE (IF elems[i].isdict THEN 0 ELSE elems[i].raw.len) + ItemChars(elems, i + 1)
Chars(v) == IF v.k = "str" THEN v.len ELSE IF v.k = "list" THEN ItemChars(v.items, 1) ELSE 0

\* the text of the content of the turn or record behind row i, when it is a string
SourceText(i) ==
    IF input.kind = "conversation" THEN GetV(records[i].text, EmptyV)
    ELSE GetNV(records[i].message.content)

\* C13: in every message row of either normalizer content and thinking hold at
\* most 100,000 characters; a content of more than 100,000 characters is cut to
\* its first 100,000 characters.
C13_ContentCapped ==
    /\ \A i \in 1..Len(acc.message_rows) :
          /\ Chars(acc.message_rows[i].content) <= 100000
          /\ Chars(acc.message_rows[i].thinking) <= 100000
    /\ (n_pc = "returned" /\ Len(Rows) = Len(records)) =>
          \A i \in 1..Len(Rows) :
              (SourceText(i).k = "str" /\ SourceText(i).len > 100000
               /\ (input.kind = "conversation" => records[i].content.k # "list")) =>
                  /\ Rows[i].content.len = 100000
                  /\ Rows[i].content = Slice(SourceText(i), 100000)


(***************************************************************************)
(* The record parser on the lines of a line-delimited file.                *)
(***************************************************************************)
LineDelimited == input.kind = "file" /\ input.file.suffix # ".json"
\* load_session_file is over (rec_i is 0 until it has returned records)
LoadRaised == n_pc = "raised" /\ rec_i = 0
Loaded == n_pc \in {"records", "returned"} \/ (n_pc = "raised" /\ rec_i > 0)

WellFormed(line) == json_loads(Strip(line)).ok
\* a line holding two concatenated JSON objects
TwoObjects(line) ==
    /\ Len(line) = 2
    /\ \A j \in 1..2 : line[j].k = "obj" /\ line[j].closed /\ line[j].inner # "bare"

\* C14: a file with one well-formed line followed by one corrupted line holding
\* two concatenated JSON objects yields at least one recovered record beyond the
\* well-formed one.
C14_ConcatenatedObjectsRecovered ==
    (LineDelimited /\ Loaded /\ Len(input.file.lines) = 2
     /\ WellFormed(input.file.lines[1]) /\ TwoObjects(input.file.lines[2])) =>
        /\ Len(records) >= 2
        /\ records[1] = json_loads(Strip(input.file.lines[1])).rec

\* a non-blank line that neither parses nor yields a recovered record
Unrecoverable(line) ==
    /\ Strip(line) # <<>>
    /\ ~json_loads(Strip(line)).ok
    /\ extract_records_from_bad_line(Strip(line)) = <<>>

RECURSIVE ExpectedWarnings(_, _, _)
ExpectedWarnings(lines, i, name) ==
    IF i > Len(lines) THEN <<>>
    ELSE (IF Unrecoverable(lines[i]) THEN <<[file |-> name, line |-> i]>> ELSE <<>>)
         \o ExpectedWarnings(lines, i + 1, name)

\* the records a line gives when it is the only line of a file
RECURSIVE LineByLine(_, _)
LineByLine(lines, i) ==
    IF i > Len(lines) THEN <<>>
    ELSE load_line([records |-> <<>>, warnings |-> <<>>], lines[i], i, "").records
         \o LineByLine(lines, i + 1)

\* C15: load_session_file never raises for a malformed line of a line-delimited
\* file: every unrecoverable line gives exactly one warning naming the file and
\* the 1-based line number and no record, the other lines are parsed all the
\* same, and there are as many warnings as unrecoverable lines.
C15_MalformedLineOnlyWarns ==
    LineDelimited =>
        /\ ~LoadRaised
        /\ (Loaded \/ n_pc = "returned") =>
              /\ warnings = ExpectedWarnings(input.file.lines, 1, input.file.name)
              /\ records = LineByLine(input.file.lines, 1)


\* C16: a session file with zero parseable records yields no session row and an
\* empty message list from process_session.
C16_NoRecordsNoSession ==
    (input.kind = "file" /\ n_pc = "returned" /\ records = <<>>) =>
        /\ result.session = <<>>
        /\ result.message_rows = <<>>

\* C16 witness: process_session has returned for a file of two lines, neither of
\* which gave a record.
C16_Witness ==
    /\ input.kind = "file" /\ n_pc = "returned" /\ records = <<>>
    /\ Len(input.file.lines) = 2
    /\ Len(warnings) = 1
    /\ result.session = <<>>

\* the role the fixed table gives a turn's sender
TableRole(turn) ==
    CASE turn.sender = "human" -> "user"
      [] turn.sender = "assistant" -> "assistant"
      [] turn.sender = ABSENT -> "unknown"
      [] OTHER -> turn.sender

\* C17: process_web_conversation emits one message row per chat turn, in turn
\* order, with the role the table human->user, assistant->assistant gives the
\* turn's sender (any other sender unchanged); a human turn followed by an
\* assistant turn yields the roles user, assistant.
C17_RolePerTurn ==
    (input.kind = "conversation" /\ n_pc = "returned" /\ result.session # <<>>) =>
        /\ Len(Rows) = Len(input.conversation.chat_messages.items)
        /\ \A i \in 1..Len(Rows) :
              /\ Rows[i].role = TableRole(input.conversation.chat_messages.items[i])
              /\ Rows[i].message_index = i - 1
        /\ (Len(Rows) = 2
            /\ input.conversation.chat_messages.items[1].sender = "human"
            /\ input.conversation.chat_messages.items[2].sender = "assistant") =>
              Rows[1].role = "user" /\ Rows[2].role = "assistant"

\* C17 witness: a conversation of a human turn and an assistant turn has been
\* returned with the roles user, assistant.
C17_Witness ==
    /\ input.kind = "conversation" /\ n_pc = "returned" /\ result.session # <<>>
    /\ Len(Rows) = 2
    /\ input.conversation.chat_messages.items[1].sender = "human"
    /\ input.conversation.chat_messages.items[2].sender = "assistant"
    /\ Rows[1].role = "user" /\ Rows[2].role = "assistant"


(***************************************************************************)
(* The files the sessions command runs over and the project it gives them. *)
(***************************************************************************)
SkippedDirs == {"subagent", "subagents", "processing"}

\* the directory segments of the path of item i, root included
DirSegments(i) ==
    LET segs == PosixSegs(cmd.root, items[i])
    IN  {segs[k] : k \in 1..(Len(segs) - 1)}

\* C18: collect_session_files never returns a file whose path has a directory
\* segment named subagent, subagents or processing, whatever the agent-file
\* override and whatever the form of the root path.
C18_NoSkippedDirectory ==
    cmd.name = "sessions" =>
        \A i \in 1..Len(items) : DirSegments(i) \cap SkippedDirs = {}

\* "-home-user-app" to "/home/user/app": every '-' of a name that starts with
\* '-' replaced by '/', any other name unchanged
Decoded(dir) == IF dir[1] = "" /\ Len(dir) > 1 THEN JoinWith(dir, "/") ELSE JoinWith(dir, "-")

\* C20: dir_to_project decodes a directory name that starts with '-' into an
\* absolute path by replacing every '-' with '/' and returns any other name
\* unchanged: the session row of a file imported from a directory of the root
\* carries that project.
C20_ProjectDecoded ==
    cmd.name = "sessions" =>
        \A i \in 1..Len(items) : \A k \in 1..Len(db.sessions) :
            (db.sessions[k].file_path = PosixPath(cmd.root, items[i]) /\ items[i].dirs # <<>>) =>
                db.sessions[k].project = Decoded(items[i].dirs[1])

\* C20 witness: a run has stored a session of -home-user-app with the project
\* /home/user/app and a session of my-project with the project my-project.
C20_Witness ==
    /\ cmd.name = "sessions" /\ cli_pc = "done" /\ db_before = EmptyDb
    /\ items = <<EntryA, EntryP>>
    /\ \E k \in 1..Len(db.sessions) :
          db.sessions[k].session_id = "A" /\ db.sessions[k].project = "/home/user/app"
    /\ \E k \in 1..Len(db.sessions) :
          db.sessions[k].session_id = "P" /\ db.sessions[k].project = "my-project"


(***************************************************************************)
(* The shape of the store after a run.                                     *)
(***************************************************************************)
\* the run has ended with a call of ensure_db_shape
Finalized == cli_pc = "done" /\ calls # <<>> /\ calls[Len(calls)] = ShapeCall

\* C21: ensure_db_shape is idempotent: on a finalized store a further call
\* leaves the indexes, the full-text table and the views as they are; a view
\* exists only if its base table does, every view whose base table exists has
\* been created, and no view exists twice.
C21_ShapeIdempotent ==
    /\ \A k \in 1..Len(db.views) : ViewRequires[db.views[k]] \subseteq db.tables
    /\ \A j, k \in 1..Len(db.views) : db.views[j] = db.views[k] => j = k
    /\ Finalized =>
          /\ ensure_db_shape(db) = db
          /\ \A v \in DOMAIN ViewRequires :
                ViewRequires[v] \subseteq db.tables => \E k \in 1..Len(db.views) : db.views[k] = v

\* C21 witness: a run on a store that was finalized before has finalized it
\* again, and holds the five views.
C21_Witness ==
    /\ Finalized
    /\ db_before = PriorDb
    /\ Len(db_before.views) = 5
    /\ Len(db.views) = 5
    /\ "messages_fts" \in db.tables


(***************************************************************************)
(* The rollups of the session row (checked under SpecNorm).                *)
(***************************************************************************)
FromFile == HasSession /\ input.kind = "file"
IsMarker(rec) == rec.isdict /\ rec.type = "metadata" /\ rec.source = "browser_export"
\* the timestamps the records carry: of all records, and of the records that are
\* no browser-export metadata record
AllStamps == {records[i].timestamp : i \in {j \in 1..Len(records) : Truthy(records[j].timestamp)}}
RecordStamps ==
    {records[i].timestamp :
        i \in {j \in 1..Len(records) : Truthy(records[j].timestamp) /\ ~IsMarker(records[j])}}
Earliest(stamps) ==
    IF stamps = {} THEN NULL
    ELSE CHOOSE t \in stamps : \A u \in stamps : RankIn(TimestampOrder, t) <= RankIn(TimestampOrder, u)
Latest(stamps) ==
    IF stamps = {} THEN NULL
    ELSE CHOOSE t \in stamps : \A u \in stamps : RankIn(TimestampOrder, t) >= RankIn(TimestampOrder, u)

\* C22 as stated: start_time and end_time of the session row are the least and
\* the greatest timestamp of all records that carry one, null when none does.
C22_TimesSpanAllRecords ==
    FromFile =>
        /\ SessionRow.start_time = Earliest(AllStamps)
        /\ SessionRow.end_time = Latest(AllStamps)

\* C22 amended: start_time and end_time of the session row are the least and the
\* greatest timestamp of the records that are no browser-export metadata record
\* and carry one, whether or not the record emits a message row; null when no
\* such record carries a timestamp.
C22_TimesSpanRecords ==
    FromFile =>
        /\ SessionRow.start_time = Earliest(RecordStamps)
        /\ SessionRow.end_time = Latest(RecordStamps)

\* C22 witness: a session whose start_time is the timestamp of a summary record
\* (no message row), earlier than every row's, and whose end_time is later.
C22_Witness ==
    /\ FromFile
    /\ \E i \in 1..Len(records) : records[i].type = "summary" /\ records[i].timestamp = SessionRow.start_time
    /\ \A k \in 1..Len(Rows) : Rows[k].timestamp # SessionRow.start_time
    /\ Len(Rows) >= 1
    /\ SessionRow.end_time # SessionRow.start_time


\* the records of the pass handled so far, and the markers among them
Handled == IF n_pc = "records" THEN rec_i - 1 ELSE Len(records)
MarkersIn(n) == {j \in 1..n : IsMarker(records[j])}
LastMarker == CHOOSE m \in MarkersIn(Len(records)) : \A j \in MarkersIn(Len(records)) : j <= m

\* C23: a browser-export metadata record switches the source of the session to
\* browser, and the source stays browser for the rest of the pass and in the
\* session row; the record makes its original_uuid the session id and its name
\* the custom title; it adds no message row and uses no message index.
C23_BrowserMarker ==
    /\ (n_pc = "records" /\ input.kind = "file") =>
          /\ acc.source = (IF MarkersIn(Handled) # {} THEN "browser" ELSE "cli")
          /\ acc.msg_index = Len(acc.message_rows)
          /\ Len(acc.message_rows) = Len(Conversational(SubSeq(records, 1, Handled), 1))
          /\ (Handled >= 1 /\ IsMarker(records[Handled])) =>
                /\ Truthy(records[Handled].original_uuid) => acc.session_id = records[Handled].original_uuid
                /\ acc.custom_title = GetN(records[Handled].name)
    /\ FromFile =>
          /\ SessionRow.source = (IF MarkersIn(Len(records)) # {} THEN "browser" ELSE "cli")
          /\ MarkersIn(Len(records)) # {} =>
                /\ Truthy(records[LastMarker].original_uuid) =>
                      SessionRow.session_id = records[LastMarker].original_uuid
                /\ (\A j \in (LastMarker + 1)..Len(records) : records[j].type # "custom-title") =>
                      SessionRow.custom_title = GetN(records[LastMarker].name)

\* C23 witness: the marker comes after a record that named another session and
\* emitted a row; the session row is of source browser, has the marker's
\* identifier and name, and the rows are those of the other records.
C23_Witness ==
    /\ FromFile
    /\ Len(records) = 3 /\ ~IsMarker(records[1]) /\ IsMarker(records[2])
    /\ records[1].sessionId = "A" /\ records[2].original_uuid = "B"
    /\ SessionRow.source = "browser"
    /\ SessionRow.session_id = "B"
    /\ SessionRow.custom_title = "Browser chat"
    /\ Len(Rows) = 2


\* the role process_session resolves for a record: the role of its message, else
\* its type, else "unknown"
ResolvedRole(rec) ==
    IF Truthy(rec.message.role) THEN rec.message.role
    ELSE IF Truthy(rec.type) THEN rec.type ELSE "unknown"
CarriesThinking(rec) ==
    /\ rec.message.content.k = "list"
    /\ \E i \in 1..Len(rec.message.content.items) : IsThinkingBlock(rec.message.content.items[i])

\* C24: a message row of process_session has a non-null thinking field only if
\* its resolved role is assistant; the row of a record of any other resolved role
\* has a null thinking field, thinking blocks in its content or not.
C24_ThinkingOnlyForAssistant ==
    (n_pc = "returned" /\ input.kind = "file") =>
        /\ \A k \in 1..Len(Rows) : Rows[k].role # "assistant" => Rows[k].thinking = NullV
        /\ HasSession =>
              \A k \in 1..Len(Rows) : Rows[k].role = ResolvedRole(Conversational(records, 1)[k])

\* C24 witness: a record of type assistant whose message is of role user carries
\* a thinking block and its row has no thinking, while the row of a record of
\* resolved role assistant has.
C24_Witness ==
    /\ FromFile
    /\ \E k \in 1..Len(Rows) :
          /\ Rows[k].role = "user" /\ Rows[k].record_type = "assistant"
          /\ CarriesThinking(Conversational(records, 1)[k])
          /\ Rows[k].thinking = NullV
    /\ \E k \in 1..Len(Rows) : Rows[k].role = "assistant" /\ Rows[k].thinking # NullV


\* a count of a row, null counted as 0
TokensOf(t) == IF t.k = "int" THEN t.n ELSE 0
RECURSIVE SumInput(_, _)
SumInput(rows, i) == IF i > Len(rows) THEN 0 ELSE TokensOf(rows[i].input_tokens) + SumInput(rows, i + 1)
RECURSIVE SumOutput(_, _)
SumOutput(rows, i) == IF i > Len(rows) THEN 0 ELSE TokensOf(rows[i].output_tokens) + SumOutput(rows, i + 1)

\* C25: the rollups of the session row agree with the message rows returned
\* with it: message_count is their number, user_message_count and
\* assistant_message_count the number of rows of role user and assistant,
\* total_input_tokens and total_output_tokens the sums of the rows' counts (null
\* counted as 0), and total_tokens the sum of the two totals.
C25_RollupsAgreeWithRows ==
    FromFile =>
        /\ SessionRow.message_count = Len(Rows)
        /\ SessionRow.user_message_count = Cardinality({k \in 1..Len(Rows) : Rows[k].role = "user"})
        /\ SessionRow.assistant_message_count = Cardinality({k \in 1..Len(Rows) : Rows[k].role = "assistant"})
        /\ SessionRow.total_input_tokens = SumInput(Rows, 1)
        /\ SessionRow.total_output_tokens = SumOutput(Rows, 1)
        /\ SessionRow.total_tokens = SessionRow.total_input_tokens + SessionRow.total_output_tokens

\* C25 witness: a session of a user row without counts, an assistant row with
\* counts and a row of another role.
C25_Witness ==
    /\ FromFile
    /\ Len(Rows) = 3
    /\ SessionRow.user_message_count = 1 /\ SessionRow.assistant_message_count = 1
    /\ SessionRow.total_input_tokens > 0 /\ SessionRow.total_output_tokens > 0
    /\ \E k \in 1..Len(Rows) : Rows[k].role = "user" /\ Rows[k].input_tokens.k = "null"


\* the positions among the first n records that carry a non-empty value of a
\* key: of all records, and of the records that are no browser-export metadata
\* record
Carrying(key, n) == {j \in 1..n : records[j].isdict /\ Truthy(records[j][key])}
CarryingUnmarked(key, n) == {j \in Carrying(key, n) : ~IsMarker(records[j])}
FirstValue(key, at) == records[CHOOSE j \in at : \A i \in at : j <= i][key]

\* C26 as stated: cwd, client_version and permission_mode of the session row are
\* each the first non-empty value of the field over all records in order.
C26_FirstOfAllRecords ==
    FromFile =>
        /\ Carrying("cwd", Len(records)) # {} =>
              SessionRow.cwd = FirstValue("cwd", Carrying("cwd", Len(records)))
        /\ Carrying("version", Len(records)) # {} =>
              SessionRow.client_version = FirstValue("version", Carrying("version", Len(records)))
        /\ Carrying("permissionMode", Len(records)) # {} =>
              SessionRow.permission_mode =
                  FirstValue("permissionMode", Carrying("permissionMode", Len(records)))

\* C26 amended: cwd, client_version and permission_mode are each the first
\* non-empty value of the field over the records that are no browser-export
\* metadata record, in order: at every point of the pass the field holds the first
\* such value among the records handled so far, so no later record changes it,
\* and the session row carries it.
C26_FirstSeenWins ==
    /\ (n_pc = "records" /\ input.kind = "file") =>
          /\ CarryingUnmarked("cwd", Handled) # {} =>
                acc.cwd = FirstValue("cwd", CarryingUnmarked("cwd", Handled))
          /\ CarryingUnmarked("version", Handled) # {} =>
                acc.client_version = FirstValue("version", CarryingUnmarked("version", Handled))
          /\ CarryingUnmarked("permissionMode", Handled) # {} =>
                acc.permission_mode = FirstValue("permissionMode", CarryingUnmarked("permissionMode", Handled))
    /\ FromFile =>
          /\ CarryingUnmarked("cwd", Len(records)) # {} =>
                SessionRow.cwd = FirstValue("cwd", CarryingUnmarked("cwd", Len(records)))
          /\ CarryingUnmarked("version", Len(records)) # {} =>
                SessionRow.client_version = FirstValue("version", CarryingUnmarked("version", Len(records)))
          /\ CarryingUnmarked("permissionMode", Len(records)) # {} =>
                SessionRow.permission_mode =
                    FirstValue("permissionMode", CarryingUnmarked("permissionMode", Len(records)))
          /\ CarryingUnmarked("permissionMode", Len(records)) = {} => SessionRow.permission_mode = NULL

\* C26 witness: after a record that carries no working directory two records
\* carry different ones and different versions, and the session row has those of
\* the earlier one; its permission mode is that of the first record carrying one.
C26_Witness ==
    /\ FromFile
    /\ \E i, j \in 1..Len(records) :
          /\ 1 < i /\ i < j
          /\ Carrying("cwd", i - 1) = {}
          /\ Truthy(records[i].cwd) /\ Truthy(records[j].cwd) /\ records[i].cwd # records[j].cwd
          /\ Truthy(records[i].version) /\ Truthy(records[j].version)
          /\ records[i].version # records[j].version
          /\ SessionRow.cwd = records[i].cwd
          /\ SessionRow.client_version = records[i].version
    /\ \E i, j \in 1..Len(records) :
          /\ i < j /\ ~IsMarker(records[i])
          /\ ~Truthy(records[i].permissionMode) /\ Truthy(records[j].permissionMode)
          /\ SessionRow.permission_mode = records[j].permissionMode


\* C27: every message row process_session returns carries the session_id of the
\* session row returned with it, whatever the order of the records.
C27_RowsCarrySessionId ==
    FromFile => \A k \in 1..Len(Rows) : Rows[k].session_id = SessionRow.session_id


(***************************************************************************)
(* The store across the saves of a run (checked under Spec).               *)
(***************************************************************************)
StoredMessages(sid) == {k \in 1..Len(db.messages) : db.messages[k].session_id = sid}

\* C28: after any sequence of save_session calls, every stored session row has
\* as many stored message rows of its session_id as its message_count says, also
\* when the session was imported again with fewer rows.
C28_StoredRowsMatchCount ==
    cli_pc = "done" =>
        \A k \in 1..Len(db.sessions) :
            Cardinality(StoredMessages(db.sessions[k].session_id)) = db.sessions[k].message_count


Ended == cli_pc \in {"done", "crashed"}
Persisting == cmd.name \in {"session", "web-export"} \/ (cmd.name = "sessions" /\ ~cmd.dry_run)
ShapeCalls == {k \in 1..Len(calls) : calls[k] = ShapeCall}
SaveCalls == {k \in 1..Len(calls) : calls[k].fn = "save_session"}
\* an item of a batch command failed: its error was listed, or ended the run
ItemFailed == cmd.name \in {"sessions", "web-export"} /\ (errors # <<>> \/ (cli_pc = "crashed" /\ items # <<>>))

\* C29: in a persisting run ensure_db_shape is called at most once and nothing
\* is saved after it; a run that saved a session has, when it ends, called
\* ensure_db_shape once, after the last save_session; and a batch run in which
\* an item failed has called it when it ends with the non-zero exit.
C29_ShapeOnceAfterLastSave ==
    /\ Cardinality(ShapeCalls) <= 1
    /\ \A i \in ShapeCalls : \A j \in SaveCalls : j < i
    /\ (Ended /\ Persisting /\ SaveCalls # {}) => ShapeCalls = {Len(calls)}
    /\ (Ended /\ Persisting /\ ItemFailed) => (exit_code # 0 /\ ShapeCalls = {Len(calls)})


(***************************************************************************)
(* The two modes of the batch commands.  The loop of one mode, run over    *)
(* the first n items from the store the run started with:                  *)
(* [db, calls, sessions, messages, errors, warnings, crashed].             *)
(***************************************************************************)
LoopStart ==
    [db |-> db_before, calls |-> <<>>, sessions |-> 0, messages |-> 0, errors |-> <<>>,
     warnings |-> <<>>, crashed |-> FALSE]

FileStep(silent, st, path) ==
    CHOOSE val \in
        {[db |-> r.db, calls |-> st.calls \o r.calls,
          sessions |-> st.sessions + r.sessions, messages |-> st.messages + r.messages,
          errors |-> IF r.err THEN Append(st.errors, [item |-> PosixPath(cmd.root, path)]) ELSE st.errors,
          warnings |-> st.warnings \o r.warnings, crashed |-> FALSE] :
            r \in {IF silent THEN import_file_silent(cmd.dry_run, st.db, cmd.root, path)
                   ELSE import_file(cmd.dry_run, st.db, cmd.root, path)}} : TRUE

RECURSIVE FilesLoop(_, _, _, _)
FilesLoop(silent, st, n, i) ==
    IF i > n THEN st
    ELSE CHOOSE val \in {FilesLoop(silent, nx, n, i + 1) : nx \in {FileStep(silent, st, items[i])}} : TRUE

ConversationStep(silent, st, conv) ==
    CHOOSE val \in
        {[db |-> r.db, calls |-> st.calls \o r.calls,
          sessions |-> st.sessions + r.sessions, messages |-> st.messages + r.messages,
          errors |-> IF r.err /\ conv.isdict THEN Append(st.errors, [item |-> Get(conv.uuid, "?")])
                     ELSE st.errors,
          warnings |-> <<>>, crashed |-> r.err /\ ~conv.isdict] :
            r \in {IF silent THEN import_conversation_silent(st.db, conv, cmd.archive)
                   ELSE import_conversation(st.db, conv, cmd.archive)}} : TRUE

RECURSIVE ConversationsLoop(_, _, _, _)
ConversationsLoop(silent, st, n, i) ==
    IF i > n \/ st.crashed THEN st
    ELSE CHOOSE val \in {ConversationsLoop(silent, nx, n, i + 1) :
                             nx \in {ConversationStep(silent, st, items[i])}} : TRUE

\* the loop of the other mode than the run's, over the items the run has handled
OtherMode ==
    IF cmd.name = "sessions" THEN FilesLoop(~cmd.silent, LoopStart, item_i - 1, 1)
    ELSE ConversationsLoop(~cmd.silent, LoopStart,
                           IF cli_pc = "crashed" THEN item_i ELSE item_i - 1, 1)

InBatch == cmd.name \in {"sessions", "web-export"} /\ items # <<>>

\* C30: at every point of a sessions or web-export run, the other mode, run
\* over the same items from the same store, has made the same save_session calls
\* in the same order and has the same store, session and message counters and
\* error list; and the run ends as the other mode would: with the same store
\* after ensure_db_shape, the same calls and the same exit code.
C30_ModesEquivalent ==
    InBatch =>
        \E o \in {OtherMode} :
            /\ session_count = o.sessions
            /\ message_count = o.messages
            /\ errors = o.errors
            /\ cli_pc \in {"loop", "crashed"} => (db = o.db /\ calls = o.calls)
            /\ o.crashed <=> cli_pc = "crashed"
            /\ cli_pc = "done" =>
                  /\ db = (IF cmd.name = "sessions" /\ cmd.dry_run THEN o.db ELSE ensure_db_shape(o.db))
                  /\ calls = (IF cmd.name = "sessions" /\ cmd.dry_run THEN o.calls
                              ELSE Append(o.calls, ShapeCall))
                  /\ exit_code = (IF o.errors # <<>> THEN 1 ELSE 0)

\* C30 witness: a silent sessions run has ended with a saved session, an item
\* that failed and no output, where the other mode has warnings to print.
C30_Witness ==
    /\ cmd.name = "sessions" /\ cmd.silent /\ ~cmd.dry_run /\ cli_pc = "done"
    /\ Len(items) >= 2
    /\ session_count >= 1 /\ errors # <<>> /\ SaveCalls # {}
    /\ out = <<>>
    /\ OtherMode.warnings # <<>>

====
